---- MODULE Spec2Model ----
(***************************************************************************)
(* State-machine model of the socratic-tutor repository:                   *)
(*   - StudentProfile            (src/src/student_profile.py)              *)
(*   - teach_topic               (src/src/socratic_engine.py)              *)
(*   - teach_topic_with_concepts (src/src/socratic_engine.py)              *)
(*   - VectorStore               (src/src/vector_store.py)                 *)
(*   - retrieve_relevant_chunks  (src/src/retriever.py)                    *)
(*   - chunk_text_by_chars, chunk_text_by_tokens (src/src/pdf_processor.py)*)
(*   - cosine_similarity         (src/src/retriever.py)                    *)
(*   - answer_query              (src/src/qa_system.py)                    *)
(*   - the programs ask.py and teach.py                                    *)
(*   - two processes that each hold a StudentProfile                       *)
(*   - StudentProfile.display_progress (src/src/student_profile.py)        *)
(*                                                                         *)
(* Python values are encoded as follows.                                   *)
(*   str            a TLA+ string                                          *)
(*   Optional[x]    <<>> for None, <<x>> for a value x                     *)
(*   list           a sequence                                             *)
(*   dict           a sequence of <<key, value>> pairs in insertion order  *)
(*                  (Python dicts and json.dump keep insertion order)      *)
(*   isoformat()    the integer reading of the wall clock                  *)
(*   float          a binary float of MantissaBits bits as the fraction    *)
(*                  <<p, q>> in lowest terms; <<0, 0>> is nan              *)
(* A JSON text is a tree of tagged values: <<"null">>, <<"string", s>>,    *)
(* <<"array", seq>>, <<"object", seq of <<key, json>>>>.                   *)
(***************************************************************************)
EXTENDS Integers, Sequences, FiniteSets, TLC

VARIABLES
    clock,            \* wall clock read by datetime.now()
    file,             \* student_profiles/default.json: <<>> absent, <<json>> present
    data,             \* StudentProfile.data of the live instance: <<>> before construction
    lastOp,           \* the last StudentProfile operation that returned, with its arguments
    latest,           \* per topic and concept, the status of its most recent update ("none" if never)
    pc,               \* control point of the running teaching function
    topic,            \* argument `topic` of the teaching function
    max_turns,        \* argument `max_turns` of teach_topic
    turn,             \* local `turn` of teach_topic
    session,          \* local `session` dict
    question_data,    \* local `question_data` (last generate_teaching_question result)
    current_question, \* local `current_question`
    context,          \* local `context`
    teaching_goal,    \* local `teaching_goal`
    student_answer,   \* local `student_answer`
    evaluation_data,  \* local `evaluation_data` / `eval_result`
    calls,            \* outbound model calls made so far, in order
    concepts,         \* argument `concepts` of teach_topic_with_concepts
    max_questions_per_concept, \* argument of teach_topic_with_concepts
    concept_idx,      \* position of the for loop over `concepts`
    concept_mastered, \* local `concept_mastered`
    questions_asked,  \* local `questions_asked`
    vector_store,     \* the directory vector_store/: <<>> absent, <<[pdf_name |-> file]>> present,
                      \* each file <<>> absent or <<json>>
    saved,            \* per pdf_name, the arguments of the most recent save (<<>> if never saved)
    store_call,       \* the last VectorStore call that returned, with arguments and result
    retrieval,        \* arguments and locals of the running retrieve_relevant_chunks call
    chunking,         \* arguments and locals of the running chunker call
    answering,        \* arguments and locals of the running answer_query call
    cli,              \* the running command-line program (ask.py or teach.py)
    writers,          \* the processes that hold a StudentProfile instance of their own
    cosine,           \* arguments and result of the running cosine_similarity call
    display           \* topic map passed to display_progress and the lines it printed

profileVars == <<clock, file, data, lastOp, latest>>
teachVars == <<pc, topic, max_turns, turn, session, question_data, current_question,
               context, teaching_goal, student_answer, evaluation_data, calls>>
conceptVars == <<concepts, max_questions_per_concept, concept_idx, concept_mastered,
                 questions_asked>>
repoVars == <<vector_store, saved, store_call, retrieval, chunking>>
appVars == <<answering, cli, writers, cosine, display>>
vars == <<clock, file, data, lastOp, latest, pc, topic, max_turns, turn, session, question_data,
          current_question, context, teaching_goal, student_answer, evaluation_data,
          calls, concepts, max_questions_per_concept, concept_idx, concept_mastered,
          questions_asked, vector_store, saved, store_call, retrieval, chunking,
          answering, cli, writers, cosine, display>>

(***************************************************************************)
(* Bounds of the model                                                     *)
(***************************************************************************)
MaxClock == 3
MaxTurnsBound == 2
MaxBudget == 2
MaxStored == 3
MaxTextLen == 4
MaxChunkSize == 3
MaxQuestions == 2
MaxWrites == 2
MaxCoordinate == 1
MaxUpdates == 2

None == <<>>
Some(x) == <<x>>
Topics == {"tokens", "embeddings"}
Concepts == {"definition", "usage"}
Statuses == {"learned", "weak", "review"}
StudentId == "default"

Min(a, b) == IF a <= b THEN a ELSE b

\* datetime.now(): every reading is later than the one before, up to the cap MaxClock
Now == {Min(clock + 1, MaxClock)}

(***************************************************************************)
(* Python list and dict primitives                                         *)
(***************************************************************************)
In(x, list) == \E i \in 1..Len(list) : list[i] = x

IndexOf(x, list) == CHOOSE i \in 1..Len(list) : list[i] = x /\ \A j \in 1..(i - 1) : list[j] # x

\* list.remove(x): removes the first occurrence only
ListRemove(list, x) ==
    LET k == IndexOf(x, list)
    IN  [i \in 1..(Len(list) - 1) |-> IF i < k THEN list[i] ELSE list[i + 1]]

\* faulty variant: the removal is left out
RemoveIfPresentSkipped(list, x) == list

\* `if concept in lst: lst.remove(concept)`
RemoveIfPresent(list, x) == IF In(x, list) THEN ListRemove(list, x) ELSE list

HasKey(dict, k) == \E i \in 1..Len(dict) : dict[i][1] = k

KeyIndex(dict, k) == CHOOSE i \in 1..Len(dict) : dict[i][1] = k

\* dict[k]
DictGet(dict, k) == dict[KeyIndex(dict, k)][2]

\* faulty variant: the value is stored under every key
DictPutEverywhere(dict, k, v) ==
    IF HasKey(dict, k)
    THEN [i \in 1..Len(dict) |-> <<dict[i][1], v>>]
    ELSE Append(dict, <<k, v>>)

\* dict[k] = v: an existing key keeps its position, a new key goes last
DictPut(dict, k, v) ==
    IF HasKey(dict, k)
    THEN [dict EXCEPT ![KeyIndex(dict, k)] = <<k, v>>]
    ELSE Append(dict, <<k, v>>)

\* dict.setdefault(k, v) as the resulting dict
SetDefault(dict, k, v) == IF HasKey(dict, k) THEN dict ELSE Append(dict, <<k, v>>)

(***************************************************************************)
(* json.dump / json.load of the profile                                    *)
(***************************************************************************)
JNull == <<"null">>
JString(s) == <<"string", s>>
JArray(seq) == <<"array", seq>>
JObject(members) == <<"object", members>>

JsonDumpList(list) == JArray([i \in 1..Len(list) |-> JString(list[i])])

JsonDumpOptional(opt) == IF opt = None THEN JNull ELSE JString(opt[1])

JsonDumpTopic(t) ==
    JObject(<< <<"concepts_learned", JsonDumpList(t.concepts_learned)>>,
               <<"concepts_weak", JsonDumpList(t.concepts_weak)>>,
               <<"last_studied", JsonDumpOptional(t.last_studied)>> >>)

JsonDumpTopics(topics) ==
    JObject([i \in 1..Len(topics) |-> <<topics[i][1], JsonDumpTopic(topics[i][2])>>])

JsonDump(d) ==
    JObject(<< <<"student_id", JString(d.student_id)>>,
               <<"created_at", JString(d.created_at)>>,
               <<"topics", JsonDumpTopics(d.topics)>> >>)

JsonMember(obj, k) == DictGet(obj[2], k)

JsonLoadList(j) == [i \in 1..Len(j[2]) |-> j[2][i][2]]

JsonLoadOptional(j) == IF j[1] = "null" THEN None ELSE Some(j[2])

JsonLoadTopic(j) ==
    [concepts_learned |-> JsonLoadList(JsonMember(j, "concepts_learned")),
     concepts_weak |-> JsonLoadList(JsonMember(j, "concepts_weak")),
     last_studied |-> JsonLoadOptional(JsonMember(j, "last_studied"))]

JsonLoadTopics(j) == [i \in 1..Len(j[2]) |-> <<j[2][i][1], JsonLoadTopic(j[2][i][2])>>]

JsonLoad(j) ==
    [student_id |-> JsonMember(j, "student_id")[2],
     created_at |-> JsonMember(j, "created_at")[2],
     topics |-> JsonLoadTopics(JsonMember(j, "topics"))]

(***************************************************************************)
(* The vector store, the retriever and the chunkers at rest                *)
(***************************************************************************)
\* the document names of the scenarios
PdfNames == {"ch_1", "ch_2"}

NoStoreCall ==
    [op |-> "none", pdf_name |-> "", chunks |-> <<>>, embeddings |-> <<>>, result |-> <<>>]

NoRetrieval ==
    [query |-> "", pdf_name |-> "", top_k |-> 0, chunks |-> None, embeddings |-> None,
     query_embedding |-> <<>>, similarities |-> <<>>, top_results |-> <<>>,
     results |-> None, raised |-> ""]

NoChunking ==
    [by |-> "", text |-> <<>>, chunk_size |-> 0, overlap |-> 0, lines |-> <<>>, line_idx |-> 0,
     current_chunk |-> <<>>, current_tokens |-> <<>>, chunks |-> <<>>, chunk_tokens |-> <<>>,
     returned |-> None, raised |-> ""]

NoAnswering ==
    [running |-> FALSE, query |-> "", pdf_name |-> "", top_k |-> 0, context_chunks |-> None,
     messages |-> None, answer |-> None, raised |-> ""]

NoCli ==
    [program |-> "none", question |-> None, asked |-> 0, output |-> <<>>, exit |-> None,
     exception |-> "", session_file |-> None]

NoWriters == <<>>

NoCosine == [vec1 |-> <<>>, vec2 |-> <<>>, result |-> None]
NoDisplay == [topic_map |-> None, printed |-> None]

NoApplication ==
    /\ answering = NoAnswering /\ cli = NoCli /\ writers = NoWriters
    /\ cosine = NoCosine /\ display = NoDisplay

NoRepositoryFiles ==
    /\ vector_store = None
    /\ saved = [n \in PdfNames |-> None]
    /\ store_call = NoStoreCall
    /\ retrieval = NoRetrieval
    /\ chunking = NoChunking

NoRepository == NoRepositoryFiles /\ NoApplication

(***************************************************************************)
(* StudentProfile                                                          *)
(***************************************************************************)
NewTopicEntry == [concepts_learned |-> <<>>, concepts_weak |-> <<>>, last_studied |-> None]

\* create_new: the fresh profile data
NewProfileData(now) == [student_id |-> StudentId, created_at |-> now, topics |-> <<>>]

\* faulty variant: save writes nothing
SaveNothing(d) == file

\* save: the file content written for profile data d
SaveAs(d) == Some(JsonDump(d))

\* faulty variant: every topic reads as unseen
get_topic_progress_unseen(d, t) == None

\* get_topic_progress: the topic's entry, or {} (None here) for an unseen topic
get_topic_progress(d, t) == IF HasKey(d.topics, t) THEN Some(DictGet(d.topics, t)) ELSE None

\* faulty variant: the lookup inserts the default, as dict.setdefault does
TopicsAfterSetDefault(topics, t) == SetDefault(topics, t, NewTopicEntry)

\* self.data["topics"] after .get(topic, {}): a lookup leaves the dict as it is
TopicsAfterGet(topics, t) == topics

LearnedOf(d, t) == IF HasKey(d.topics, t) THEN DictGet(d.topics, t).concepts_learned ELSE <<>>

WeakOf(d, t) == IF HasKey(d.topics, t) THEN DictGet(d.topics, t).concepts_weak ELSE <<>>

\* faulty variant: the concept is removed from the other list only
UpdatedDataOtherListOnly(d, t, c, s, now) ==
    LET topics1 == SetDefault(d.topics, t, NewTopicEntry)
        td == DictGet(topics1, t)
        learned1 == IF s = "learned" THEN td.concepts_learned
                    ELSE RemoveIfPresent(td.concepts_learned, c)
        weak1 == IF s = "weak" THEN td.concepts_weak ELSE RemoveIfPresent(td.concepts_weak, c)
        learned2 == IF s = "learned" THEN Append(learned1, c) ELSE learned1
        weak2 == IF s # "learned" /\ s = "weak" THEN Append(weak1, c) ELSE weak1
        td2 == [concepts_learned |-> learned2, concepts_weak |-> weak2,
                last_studied |-> Some(now)]
    IN  [d EXCEPT !.topics = DictPut(topics1, t, td2)]

\* update_concept_progress up to the save: the new profile data
UpdatedData(d, t, c, s, now) ==
    LET topics1 == SetDefault(d.topics, t, NewTopicEntry)
        td == DictGet(topics1, t)
        learned1 == RemoveIfPresent(td.concepts_learned, c)
        weak1 == RemoveIfPresent(td.concepts_weak, c)
        learned2 == IF s = "learned" THEN Append(learned1, c) ELSE learned1
        weak2 == IF s # "learned" /\ s = "weak" THEN Append(weak1, c) ELSE weak1
        td2 == [concepts_learned |-> learned2, concepts_weak |-> weak2,
                last_studied |-> Some(now)]
    IN  [d EXCEPT !.topics = DictPut(topics1, t, td2)]

Data == data[1]

SameCall(t, c, s) ==
    /\ lastOp.op = "update"
    /\ lastOp.topic = t /\ lastOp.concept = c /\ lastOp.status = s

\* faulty variant: the call changes nothing
DoUpdateDropped(t, c, s) == UNCHANGED <<clock, data, file, lastOp, latest>>

\* the state change of update_concept_progress(t, c, s), save included
DoUpdate(t, c, s) ==
    /\ \E now \in Now :
          /\ clock' = now
          /\ data' = Some(UpdatedData(Data, t, c, s, now))
          /\ file' = SaveAs(UpdatedData(Data, t, c, s, now))
    /\ lastOp' = [op |-> "update", topic |-> t, concept |-> c, status |-> s,
                  rep |-> IF SameCall(t, c, s) THEN 2 ELSE 1, returned |-> None]
    /\ latest' = [latest EXCEPT ![t][c] = s]

NoOp ==
    [op |-> "none", topic |-> "", concept |-> "", status |-> "", rep |-> 0, returned |-> None]

\* StudentProfile(): load the file when it exists, else create_new (and save)
Construct ==
    /\ pc = "profile"
    /\ IF file # None
       THEN /\ data' = Some(JsonLoad(file[1]))
            /\ UNCHANGED <<file, clock>>
       ELSE \E now \in Now :
                /\ clock' = now
                /\ data' = Some(NewProfileData(now))
                /\ file' = SaveAs(NewProfileData(now))
    /\ lastOp' = [NoOp EXCEPT !.op = "construct"]
    /\ UNCHANGED <<latest, teachVars, conceptVars>>
    /\ UNCHANGED <<repoVars, appVars>>

update_concept_progress(t, c, s) ==
    /\ pc = "profile"
    /\ data # None
    /\ DoUpdate(t, c, s)
    /\ UNCHANGED <<teachVars, conceptVars>>
    /\ UNCHANGED <<repoVars, appVars>>

UpdateConceptProgress ==
    \E t \in Topics, c \in Concepts, s \in Statuses : update_concept_progress(t, c, s)

\* profile.get_topic_progress(t): the value returned is kept in lastOp
GetTopicProgressOf(t) ==
    /\ pc = "profile"
    /\ data # None
    /\ data' = Some([Data EXCEPT !.topics = TopicsAfterGet(Data.topics, t)])
    /\ lastOp' = [NoOp EXCEPT !.op = "get", !.topic = t,
                              !.returned = get_topic_progress(Data, t)]
    /\ UNCHANGED <<clock, file, latest, teachVars, conceptVars>>
    /\ UNCHANGED <<repoVars, appVars>>

GetTopicProgress == \E t \in Topics : GetTopicProgressOf(t)

NoSession ==
    /\ topic = "" /\ max_turns = 0 /\ turn = 0 /\ session = None
    /\ question_data = None /\ current_question = "" /\ context = <<>> /\ teaching_goal = ""
    /\ student_answer = None /\ evaluation_data = None /\ calls = <<>>
    /\ concepts = <<>> /\ max_questions_per_concept = 0 /\ concept_idx = 0
    /\ concept_mastered = FALSE /\ questions_asked = 0

InitProfile ==
    /\ pc = "profile"
    /\ clock = 1
    /\ file = None
    /\ data = None
    /\ lastOp = NoOp
    /\ latest = [t \in Topics |-> [c \in Concepts |-> "none"]]
    /\ NoSession
    /\ NoRepository

NextProfile == Construct \/ UpdateConceptProgress \/ GetTopicProgress

SpecProfile == InitProfile /\ [][NextProfile]_vars

(***************************************************************************)
(* Two processes, each with a StudentProfile instance of its own on the    *)
(* same file. writers.procs[p] holds the instance of process p (its data,  *)
(* the position of its constructor, the update calls that returned);       *)
(* writers.last is the process that wrote the file last. A write of the    *)
(* file is one step.                                                       *)
(***************************************************************************)
Procs == {"p1", "p2"}

\* the update calls of the processes
WriterTopics == {"tokens"}
WriterStatuses == {"learned", "weak"}

NewWriter == [pc |-> "new", exists |-> FALSE, data |-> None, updates |-> <<>>]

\* faulty variant: a file already on disk is left as it is
WriteKeepsDisk(own, on_disk) == IF on_disk # None THEN on_disk ELSE SaveAs(own)

\* save in a process: open(path, "w") replaces whatever is on disk by the data of the
\* instance
Write(own, on_disk) == SaveAs(own)

WritersFrame ==
    UNCHANGED <<data, lastOp, latest, teachVars, conceptVars, repoVars, answering, cli,
                cosine, display>>

\* __init__ lines 38-45: the test `self.profile_path.exists()`
WriterExists(p) ==
    /\ pc = "writers"
    /\ writers.procs[p].pc = "new"
    /\ writers' = [writers EXCEPT !.procs[p].exists = file # None,
                                  !.procs[p].pc = IF file # None THEN "load" ELSE "create"]
    /\ UNCHANGED <<clock, file>>
    /\ WritersFrame

\* load
WriterLoad(p) ==
    /\ pc = "writers"
    /\ writers.procs[p].pc = "load"
    /\ writers' = [writers EXCEPT !.procs[p].data = Some(JsonLoad(file[1])),
                                  !.procs[p].pc = "ready"]
    /\ UNCHANGED <<clock, file>>
    /\ WritersFrame

\* create_new, save included
WriterCreate(p) ==
    /\ pc = "writers"
    /\ writers.procs[p].pc = "create"
    /\ \E now \in Now :
          /\ clock' = now
          /\ file' = Write(NewProfileData(now), file)
          /\ writers' = [writers EXCEPT !.procs[p].data = Some(NewProfileData(now)),
                                        !.procs[p].pc = "ready",
                                        !.last = p]
    /\ WritersFrame

\* update_concept_progress(t, c, s) in process p, save included
WriterUpdate(p, t, c, s) ==
    /\ pc = "writers"
    /\ writers.procs[p].pc = "ready"
    /\ Len(writers.procs[p].updates) < MaxWrites
    /\ \E now \in Now :
          LET updated == UpdatedData(writers.procs[p].data[1], t, c, s, now)
          IN  /\ clock' = now
              /\ file' = Write(updated, file)
              /\ writers' = [writers EXCEPT !.procs[p].data = Some(updated),
                                            !.procs[p].updates = Append(@, <<t, c, s>>),
                                            !.last = p]
    /\ WritersFrame

\* the file is absent, or was left by an earlier run
InitWriters ==
    /\ pc = "writers"
    /\ clock = 1
    /\ file \in {None, SaveAs(NewProfileData(1))}
    /\ data = None
    /\ lastOp = NoOp
    /\ latest = [t \in Topics |-> [c \in Concepts |-> "none"]]
    /\ NoSession
    /\ NoRepositoryFiles
    /\ answering = NoAnswering
    /\ cli = NoCli
    /\ writers = [last |-> "", procs |-> [p \in Procs |-> NewWriter]]
    /\ cosine = NoCosine /\ display = NoDisplay

NextWriters ==
    \E p \in Procs :
        \/ WriterExists(p)
        \/ WriterLoad(p)
        \/ WriterCreate(p)
        \/ \E t \in WriterTopics, c \in Concepts, s \in WriterStatuses : WriterUpdate(p, t, c, s)

SpecWriters == InitWriters /\ [][NextWriters]_vars

(***************************************************************************)
(* The model provider and the student, as seen by socratic_engine.py      *)
(***************************************************************************)
\* what input() can return
RawInputs == {"", "  ", " answer ", " Quit "}

\* str.strip()
Strip(raw) ==
    CASE raw = "  " -> ""
      [] raw = " answer " -> "answer"
      [] raw = " Quit " -> "Quit"
      [] OTHER -> raw

\* str.lower()
Lower(str) ==
    CASE str = "Quit" -> "quit"
      [] OTHER -> str

\* the JSON objects the model returns to generate_teaching_question
QuestionReplies ==
    {[question |-> "Q1", teaching_goal |-> "G1", hint_if_stuck |-> "H1"],
     [question |-> "Q2", teaching_goal |-> "G2", hint_if_stuck |-> "H2"]}

\* the JSON objects the model returns to evaluate_answer (strengths, gaps and
\* misconceptions are not read by the teaching loops and are left out)
EvaluationReplies ==
    {[evaluation |-> [correctness |-> c], feedback |-> "F", next_question |-> n] :
        c \in {"correct", "partial", "incorrect"}, n \in {None, Some("Q3")}}

\* retrieve_relevant_chunks(query=f"Explain this in detail: {topic}"): the chunk texts
\* retrieved for a query, a function of the query
Retrieved(query_topic) == <<query_topic>>

\* generate_teaching_question: the result for a model reply
GeneratedQuestion(query_topic, reply) ==
    [question |-> reply.question, teaching_goal |-> reply.teaching_goal,
     hint_if_stuck |-> reply.hint_if_stuck, context_used |-> Retrieved(query_topic)]

GenerateCall(query_topic, difficulty, reply) ==
    [fn |-> "generate_teaching_question", topic |-> query_topic, difficulty |-> difficulty,
     reply |-> reply]

EvaluateCall(question, answer, ctx, goal, reply) ==
    [fn |-> "evaluate_answer", question |-> question, student_answer |-> answer,
     context |-> ctx, teaching_goal |-> goal, reply |-> reply]

\* Python truth value of an Optional[str]
Truthy(opt) == opt # None /\ opt[1] # ""

\* faulty variant: the emptiness test inverted
IsEmptyAnswerInverted(answer) == answer # ""

\* `if not student_answer`
IsEmptyAnswer(answer) == answer = ""

(***************************************************************************)
(* teach_topic                                                             *)
(***************************************************************************)
\* `evaluation_data["evaluation"] == "correct"`: a dict compared with a str, never equal
EvaluationEqualsCorrect(evaluation) == FALSE

\* the mastery test of teach_topic
SessionDone(reply) ==
    EvaluationEqualsCorrect(reply.evaluation) /\ ~Truthy(reply.next_question)

\* faulty variant: the loop test off by one
TurnsRemainInclusive(t, m) == t <= m

\* `while turn < max_turns`
TurnsRemain(t, m) == t < m

\* faulty variant: the limit test off by one
TurnLimitReachedStrict(t, m) == t > m

\* `if turn >= max_turns`
TurnLimitReached(t, m) == t >= m

\* faulty variant: the empty turn is counted
UncountTurnForgotten(t) == t

\* `turn -= 1  # Don't count empty turns`
UncountTurn(t) == t - 1

\* the assessment recorded when the turn limit is reached
AssessmentAtLimit == "in progress"

\* difficulty: "beginner", "intermediate", "difficult"
DifficultyRank(d) == CASE d = "beginner" -> 1 [] d = "intermediate" -> 2 [] d = "difficult" -> 3

\* faulty variant: the regenerated question keeps the opening difficulty
RegeneratedDifficultySame == "beginner"

\* the difficulty of a regenerated question
RegeneratedDifficulty == "intermediate"

\* faulty variant: the turn limit is not looked at
EndOfTurnUnassessed(sess) == sess

\* the end of a loop iteration, after the next question was chosen
EndOfTurn(sess) ==
    IF TurnLimitReached(turn, max_turns)
    THEN [sess EXCEPT !.final_assessment = Some(AssessmentAtLimit)]
    ELSE sess

\* the first question
TeachGenerate ==
    /\ pc = "t_gen"
    /\ \E reply \in QuestionReplies :
          LET q == GeneratedQuestion(<<topic>>, reply)
          IN  /\ question_data' = Some(q)
              /\ current_question' = q.question
              /\ context' = q.context_used
              /\ teaching_goal' = q.teaching_goal
              /\ calls' = Append(calls, GenerateCall(<<topic>>, "beginner", reply))
    /\ turn' = 0
    /\ pc' = "t_loop"
    /\ UNCHANGED <<topic, max_turns, session, student_answer, evaluation_data>>
    /\ UNCHANGED <<profileVars, conceptVars>>
    /\ UNCHANGED <<repoVars, appVars>>

\* the loop test; a passed test presents current_question and waits for input
TeachLoop ==
    /\ pc = "t_loop"
    /\ IF TurnsRemain(turn, max_turns)
       THEN turn' = turn + 1 /\ pc' = "t_ask"
       ELSE turn' = turn /\ pc' = "t_done"
    /\ UNCHANGED <<topic, max_turns, session, question_data, current_question, context,
                   teaching_goal, student_answer, evaluation_data, calls>>
    /\ UNCHANGED <<profileVars, conceptVars>>
    /\ UNCHANGED <<repoVars, appVars>>

\* input() returns
TeachAnswer(raw) ==
    /\ pc = "t_ask"
    /\ student_answer' = Some(Strip(raw))
    /\ IF IsEmptyAnswer(Strip(raw))
       THEN /\ turn' = UncountTurn(turn)
            /\ pc' = "t_loop"
            /\ session' = session
       ELSE /\ turn' = turn
            /\ pc' = "t_eval"
            /\ session' = [session EXCEPT !.transcript =
                              Append(@, [turn |-> turn, question |-> current_question,
                                         answer |-> Strip(raw)])]
    /\ UNCHANGED <<topic, max_turns, question_data, current_question, context,
                   teaching_goal, evaluation_data, calls>>
    /\ UNCHANGED <<profileVars, conceptVars>>
    /\ UNCHANGED <<repoVars, appVars>>

\* evaluate_answer returns; the rest of the iteration up to the next model call
TeachEvaluate ==
    /\ pc = "t_eval"
    /\ \E reply \in EvaluationReplies :
          LET n == Len(session.transcript)
              last == session.transcript[n]
              entry == [turn |-> last.turn, question |-> last.question,
                        answer |-> last.answer, evaluation |-> reply.evaluation,
                        feedback |-> reply.feedback]
              recorded == [session EXCEPT !.transcript[n] = entry]
          IN  /\ evaluation_data' = Some(reply)
              /\ calls' = Append(calls, EvaluateCall(current_question, student_answer[1],
                                                     context, teaching_goal, reply))
              /\ IF SessionDone(reply)
                 THEN /\ session' = [recorded EXCEPT !.final_assessment = Some("mastered")]
                      /\ pc' = "t_done"
                      /\ UNCHANGED current_question
                 ELSE IF Truthy(reply.next_question)
                 THEN /\ current_question' = reply.next_question[1]
                      /\ session' = EndOfTurn(recorded)
                      /\ pc' = "t_loop"
                 ELSE /\ session' = recorded
                      /\ pc' = "t_regen"
                      /\ UNCHANGED current_question
    /\ UNCHANGED <<topic, max_turns, turn, question_data, context, teaching_goal,
                   student_answer>>
    /\ UNCHANGED <<profileVars, conceptVars>>
    /\ UNCHANGED <<repoVars, appVars>>

\* no follow-up was supplied: a new question is generated; context and teaching_goal
\* keep the values of the first question
TeachRegenerate ==
    /\ pc = "t_regen"
    /\ \E reply \in QuestionReplies :
          LET q == GeneratedQuestion(<<topic>>, reply)
          IN  /\ question_data' = Some(q)
              /\ current_question' = q.question
              /\ calls' = Append(calls, GenerateCall(<<topic>>, RegeneratedDifficulty, reply))
    /\ session' = EndOfTurn(session)
    /\ pc' = "t_loop"
    /\ UNCHANGED <<topic, max_turns, turn, context, teaching_goal, student_answer,
                   evaluation_data>>
    /\ UNCHANGED <<profileVars, conceptVars>>
    /\ UNCHANGED <<repoVars, appVars>>

TeachInput == \E raw \in RawInputs : TeachAnswer(raw)

SessionTopic == "tokens"

InitTeach ==
    /\ pc = "t_gen"
    /\ topic = SessionTopic
    /\ max_turns \in -1..MaxTurnsBound
    /\ turn = 0
    /\ session = [topic |-> SessionTopic, transcript |-> <<>>, final_assessment |-> None]
    /\ question_data = None /\ current_question = "" /\ context = <<>> /\ teaching_goal = ""
    /\ student_answer = None /\ evaluation_data = None /\ calls = <<>>
    /\ concepts = <<>> /\ max_questions_per_concept = 0 /\ concept_idx = 0
    /\ concept_mastered = FALSE /\ questions_asked = 0
    /\ clock = 1 /\ file = None /\ data = None /\ lastOp = NoOp
    /\ latest = [t \in Topics |-> [c \in Concepts |-> "none"]]
    /\ NoRepository

NextTeach == TeachGenerate \/ TeachLoop \/ TeachInput \/ TeachEvaluate \/ TeachRegenerate

(***************************************************************************)
(* teach_topic_with_concepts                                               *)
(***************************************************************************)
\* faulty variant: the word "quit" itself is not recognised
QuitWordsShort == {"q", "exit"}

\* `student_answer.lower() in ["q", "quit", "exit"]`
QuitWords == {"q", "quit", "exit"}

\* faulty variant: the skip test reads concepts_weak
AlreadyLearnedWrongList(progress, c) == progress # None /\ In(c, progress[1].concepts_weak)

\* `progress and concept in progress["concepts_learned"]`
AlreadyLearned(progress, c) == progress # None /\ In(c, progress[1].concepts_learned)

\* faulty variant: an empty answer gives two questions back
UncountQuestionTwice(asked) == asked - 2

\* `questions_asked -= 1` after an empty answer
UncountQuestion(asked) == asked - 1

\* faulty variant: the loop stops one question short of the budget
QuestionsRemainOffByOne(asked, budget, mastered) == asked + 1 < budget /\ ~mastered

\* `while questions_asked < max_questions_per_concept and not concept_mastered`
QuestionsRemain(asked, budget, mastered) == asked < budget /\ ~mastered

\* faulty variant: only "correct" counts as learned
ConceptLearnedCorrectOnly(reply) == reply.evaluation.correctness = "correct"

\* `eval_result["evaluation"]["correctness"] in ["correct", "partial"]`
ConceptLearned(reply) == reply.evaluation.correctness \in {"correct", "partial"}

CurrentConcept == concepts[concept_idx]

\* the for loop takes the next concept: an already learned one is skipped
ConceptSkip ==
    /\ pc = "c_head"
    /\ concept_idx <= Len(concepts)
    /\ AlreadyLearned(get_topic_progress(Data, topic), CurrentConcept)
    /\ session' = [session EXCEPT !.concept_results =
                      DictPut(@, CurrentConcept, "already_learned")]
    /\ concept_idx' = concept_idx + 1
    /\ UNCHANGED <<pc, topic, max_turns, turn, question_data, current_question, context,
                   teaching_goal, student_answer, evaluation_data, calls>>
    /\ UNCHANGED <<concepts, max_questions_per_concept, concept_mastered, questions_asked>>
    /\ UNCHANGED profileVars
    /\ UNCHANGED <<repoVars, appVars>>

\* the for loop takes the next concept: the first question on it is generated
ConceptGenerate ==
    /\ pc = "c_head"
    /\ concept_idx <= Len(concepts)
    /\ ~AlreadyLearned(get_topic_progress(Data, topic), CurrentConcept)
    /\ \E reply \in QuestionReplies :
          LET q == GeneratedQuestion(<<topic, CurrentConcept>>, reply)
          IN  /\ question_data' = Some(q)
              /\ current_question' = q.question
              /\ teaching_goal' = q.teaching_goal
              /\ context' = q.context_used
              /\ calls' = Append(calls,
                                 GenerateCall(<<topic, CurrentConcept>>, "beginner", reply))
    /\ concept_mastered' = FALSE
    /\ questions_asked' = 0
    /\ pc' = "c_loop"
    /\ UNCHANGED <<topic, max_turns, turn, session, student_answer, evaluation_data>>
    /\ UNCHANGED <<concepts, max_questions_per_concept, concept_idx>>
    /\ UNCHANGED profileVars
    /\ UNCHANGED <<repoVars, appVars>>

\* the for loop is exhausted: the function returns
ConceptsReturn ==
    /\ pc = "c_head"
    /\ concept_idx > Len(concepts)
    /\ pc' = "c_done"
    /\ UNCHANGED <<topic, max_turns, turn, session, question_data, current_question, context,
                   teaching_goal, student_answer, evaluation_data, calls>>
    /\ UNCHANGED <<conceptVars, profileVars>>
    /\ UNCHANGED <<repoVars, appVars>>

\* the inner loop test passes: current_question is presented, input is awaited
ConceptAsk ==
    /\ pc = "c_loop"
    /\ QuestionsRemain(questions_asked, max_questions_per_concept, concept_mastered)
    /\ questions_asked' = questions_asked + 1
    /\ pc' = "c_ask"
    /\ UNCHANGED <<topic, max_turns, turn, session, question_data, current_question, context,
                   teaching_goal, student_answer, evaluation_data, calls>>
    /\ UNCHANGED <<concepts, max_questions_per_concept, concept_idx, concept_mastered>>
    /\ UNCHANGED profileVars
    /\ UNCHANGED <<repoVars, appVars>>

\* the inner loop test fails with the concept not mastered: step 5 marks it weak
ConceptWeak ==
    /\ pc = "c_loop"
    /\ ~QuestionsRemain(questions_asked, max_questions_per_concept, concept_mastered)
    /\ ~concept_mastered
    /\ session' = [session EXCEPT
                      !.concept_results = DictPut(@, CurrentConcept, "weak"),
                      !.concepts_covered = Append(@, CurrentConcept)]
    /\ DoUpdate(topic, CurrentConcept, "weak")
    /\ concept_idx' = concept_idx + 1
    /\ pc' = "c_head"
    /\ UNCHANGED <<topic, max_turns, turn, question_data, current_question, context,
                   teaching_goal, student_answer, evaluation_data, calls>>
    /\ UNCHANGED <<concepts, max_questions_per_concept, concept_mastered, questions_asked>>
    /\ UNCHANGED <<repoVars, appVars>>

\* input() returns
ConceptAnswer(raw) ==
    /\ pc = "c_ask"
    /\ student_answer' = Some(Strip(raw))
    /\ IF Lower(Strip(raw)) \in QuitWords
       THEN /\ session' = [session EXCEPT !.concept_results =
                              DictPut(@, CurrentConcept, "incomplete")]
            /\ pc' = "c_done"
            /\ UNCHANGED questions_asked
       ELSE IF IsEmptyAnswer(Strip(raw))
       THEN /\ questions_asked' = UncountQuestion(questions_asked)
            /\ pc' = "c_loop"
            /\ UNCHANGED session
       ELSE /\ pc' = "c_eval"
            /\ UNCHANGED <<session, questions_asked>>
    /\ UNCHANGED <<topic, max_turns, turn, question_data, current_question, context,
                   teaching_goal, evaluation_data, calls>>
    /\ UNCHANGED <<concepts, max_questions_per_concept, concept_idx, concept_mastered>>
    /\ UNCHANGED profileVars
    /\ UNCHANGED <<repoVars, appVars>>

ConceptInput == \E raw \in RawInputs : ConceptAnswer(raw)

\* evaluate_answer returns; steps 4.2 to 4.5 up to the next model call or prompt
ConceptEvaluate ==
    /\ pc = "c_eval"
    /\ \E reply \in EvaluationReplies :
          LET turn_data == [concept |-> CurrentConcept, question |-> current_question,
                            answer |-> student_answer[1], evaluation |-> reply.evaluation,
                            feedback |-> reply.feedback]
              recorded == [session EXCEPT !.transcript = Append(@, turn_data)]
          IN  /\ evaluation_data' = Some(reply)
              /\ calls' = Append(calls, EvaluateCall(current_question, student_answer[1],
                                                     context, teaching_goal, reply))
              /\ IF ConceptLearned(reply)
                 THEN /\ concept_mastered' = TRUE
                      /\ session' = [recorded EXCEPT
                                        !.concept_results = DictPut(@, CurrentConcept, "learned"),
                                        !.concepts_covered = Append(@, CurrentConcept)]
                      /\ DoUpdate(topic, CurrentConcept, "learned")
                      /\ concept_idx' = concept_idx + 1
                      /\ pc' = "c_head"
                      /\ UNCHANGED current_question
                 ELSE /\ session' = recorded
                      /\ UNCHANGED <<concept_mastered, concept_idx, profileVars>>
                      /\ IF questions_asked < max_questions_per_concept
                         THEN IF Truthy(reply.next_question)
                              THEN current_question' = reply.next_question[1] /\ pc' = "c_loop"
                              ELSE pc' = "c_regen" /\ UNCHANGED current_question
                         ELSE pc' = "c_loop" /\ UNCHANGED current_question
    /\ UNCHANGED <<topic, max_turns, turn, question_data, context, teaching_goal,
                   student_answer>>
    /\ UNCHANGED <<concepts, max_questions_per_concept, questions_asked>>
    /\ UNCHANGED <<repoVars, appVars>>

\* no follow-up was supplied and budget remains: a new question on the same concept;
\* context and teaching_goal keep the values of the concept's first question
ConceptRegenerate ==
    /\ pc = "c_regen"
    /\ \E reply \in QuestionReplies :
          LET query == <<topic, CurrentConcept, "using a simple analogy">>
              q == GeneratedQuestion(query, reply)
          IN  /\ question_data' = Some(q)
              /\ current_question' = q.question
              /\ calls' = Append(calls, GenerateCall(query, "beginner", reply))
    /\ pc' = "c_loop"
    /\ UNCHANGED <<topic, max_turns, turn, session, context, teaching_goal, student_answer,
                   evaluation_data>>
    /\ UNCHANGED <<conceptVars, profileVars>>
    /\ UNCHANGED <<repoVars, appVars>>

\* the concept lists a caller passes, a repeated concept included
ConceptLists ==
    {<<>>, <<"definition">>, <<"definition", "usage">>, <<"definition", "definition">>}

\* the profiles a session can start from: a new one, or one update later
StartProfiles ==
    {NewProfileData(1)} \cup
    {UpdatedData(NewProfileData(1), u[1], u[2], u[3], 1) :
        u \in {<<"tokens", "definition", "learned">>, <<"tokens", "definition", "weak">>,
               <<"tokens", "usage", "learned">>}}

StatusIn(d, t, c) ==
    IF In(c, LearnedOf(d, t)) THEN "learned"
    ELSE IF In(c, WeakOf(d, t)) THEN "weak" ELSE "none"

InitConcepts ==
    /\ pc = "c_head"
    /\ topic = SessionTopic
    /\ concepts \in ConceptLists
    /\ max_questions_per_concept \in 0..MaxBudget
    /\ concept_idx = 1
    /\ concept_mastered = FALSE /\ questions_asked = 0
    /\ clock = 1
    /\ \E d \in StartProfiles :
          /\ data = Some(d)
          /\ file = SaveAs(d)
          /\ latest = [t \in Topics |-> [c \in Concepts |-> StatusIn(d, t, c)]]
    /\ lastOp = NoOp
    /\ session = [session_id |-> <<SessionTopic, 1>>, topic |-> SessionTopic,
                  concepts_covered |-> <<>>, transcript |-> <<>>, concept_results |-> <<>>]
    /\ max_turns = 0 /\ turn = 0
    /\ question_data = None /\ current_question = "" /\ context = <<>> /\ teaching_goal = ""
    /\ student_answer = None /\ evaluation_data = None /\ calls = <<>>
    /\ NoRepository

NextConcepts ==
    \/ ConceptSkip \/ ConceptGenerate \/ ConceptsReturn \/ ConceptAsk \/ ConceptWeak
    \/ ConceptInput \/ ConceptEvaluate \/ ConceptRegenerate

(***************************************************************************)
(* The teaching sessions: one call of teach_topic or teach_topic_with_concepts *)
(***************************************************************************)
Init == InitTeach \/ InitConcepts

Next == NextTeach \/ NextConcepts

Spec == Init /\ [][Next]_vars

\* the student's answers that are not empty: a quit word or a text
NonEmptyInput ==
    \E raw \in RawInputs : Strip(raw) # "" /\ (TeachAnswer(raw) \/ ConceptAnswer(raw))

\* every model call returns and the program runs on; a prompted student sooner or
\* later answers with something other than an empty line
ProgramStep ==
    \/ TeachGenerate \/ TeachLoop \/ TeachEvaluate \/ TeachRegenerate
    \/ ConceptSkip \/ ConceptGenerate \/ ConceptsReturn \/ ConceptAsk \/ ConceptWeak
    \/ ConceptEvaluate \/ ConceptRegenerate

FairSpec == Init /\ [][Next]_vars /\ WF_vars(ProgramStep) /\ SF_vars(NonEmptyInput)

(***************************************************************************)
(* VectorStore (src/src/vector_store.py)                                   *)
(* The file <pdf_name>.json holds the JSON text written by save. Chunk     *)
(* texts are strings, embeddings are sequences of numbers.                 *)
(***************************************************************************)
\* no StudentProfile and no teaching function are involved
NoProfile ==
    /\ file = None /\ data = None /\ lastOp = NoOp
    /\ latest = [t \in Topics |-> [c \in Concepts |-> "none"]]

SeqsUpTo(S, n) == UNION {[1..k -> S] : k \in 0..n}

\* the chunk lists and embedding lists passed to save: equal and unequal lengths,
\* the same elements in both orders
ChunkTexts == {"T1", "T2"}
SavedChunkLists == {<<>>, <<"T1">>, <<"T1", "T2">>, <<"T2", "T1">>}
SavedEmbeddingLists == {<<>>, <<<<1, 0>>>>, <<<<1, 0>>, <<0, 1>>>>, <<<<0, 1>>, <<1, 0>>>>}

\* zip(xs, ys): stops at the end of the shorter list
Zip(xs, ys) == [i \in 1..Min(Len(xs), Len(ys)) |-> <<xs[i], ys[i]>>]

JNumber(n) == <<"number", n>>

JsonDumpVector(v) == JArray([i \in 1..Len(v) |-> JNumber(v[i])])

\* {"id": i, "text": chunk, "embedding": embedding}
JsonDumpChunk(i, chunk, embedding) ==
    JObject(<< <<"id", JNumber(i)>>,
               <<"text", JString(chunk)>>,
               <<"embedding", JsonDumpVector(embedding)>> >>)

\* the `data` dict built by save, as the JSON text json.dump writes
SaveData(pdf_name, chunks, embeddings, now) ==
    LET pairs == Zip(chunks, embeddings)
    IN  JObject(<< <<"pdf_name", JString(pdf_name)>>,
                   <<"created_at", JString(now)>>,
                   <<"num_chunks", JNumber(Len(chunks))>>,
                   <<"chunks", JArray([i \in 1..Len(pairs) |->
                                          JsonDumpChunk(i - 1, pairs[i][1], pairs[i][2])])>> >>)

\* VectorStore.__init__: storage_dir.mkdir(exist_ok=True); the files of the directory
Mkdir(dir) == IF dir = None THEN [n \in PdfNames |-> None] ELSE dir[1]

JsonLoadVector(j) == [i \in 1..Len(j[2]) |-> j[2][i][2]]

\* [item["text"] for item in data["chunks"]]
LoadChunks(j) ==
    LET items == JsonMember(j, "chunks")[2]
    IN  [i \in 1..Len(items) |-> JsonMember(items[i], "text")[2]]

\* [item["embedding"] for item in data["chunks"]]
LoadEmbeddings(j) ==
    LET items == JsonMember(j, "chunks")[2]
    IN  [i \in 1..Len(items) |-> JsonLoadVector(JsonMember(items[i], "embedding"))]

\* VectorStore.load on the files of the directory: (None, None) or (chunks, embeddings)
LoadFrom(files, pdf_name) ==
    IF files[pdf_name] = None
    THEN <<None, None>>
    ELSE <<Some(LoadChunks(files[pdf_name][1])), Some(LoadEmbeddings(files[pdf_name][1]))>>

\* VectorStore().save(pdf_name, chunks, embeddings)
save(pdf_name, chunks, embeddings) ==
    /\ pc = "store"
    /\ \E now \in Now :
          /\ clock' = now
          /\ vector_store' = Some([Mkdir(vector_store) EXCEPT
                                      ![pdf_name] = Some(SaveData(pdf_name, chunks,
                                                                  embeddings, now))])
    /\ saved' = [saved EXCEPT ![pdf_name] = Some(<<chunks, embeddings>>)]
    /\ store_call' = [op |-> "save", pdf_name |-> pdf_name, chunks |-> chunks,
                      embeddings |-> embeddings, result |-> <<>>]
    /\ UNCHANGED <<file, data, lastOp, latest, teachVars, conceptVars, retrieval, chunking>>
    /\ UNCHANGED appVars

StoreSave ==
    \E n \in PdfNames, chunks \in SavedChunkLists, embeddings \in SavedEmbeddingLists :
        save(n, chunks, embeddings)

\* VectorStore().load(pdf_name)
load(pdf_name) ==
    /\ pc = "store"
    /\ vector_store' = Some(Mkdir(vector_store))
    /\ store_call' = [op |-> "load", pdf_name |-> pdf_name, chunks |-> <<>>,
                      embeddings |-> <<>>, result |-> LoadFrom(Mkdir(vector_store), pdf_name)]
    /\ UNCHANGED <<clock, file, data, lastOp, latest, teachVars, conceptVars, saved,
                   retrieval, chunking>>
    /\ UNCHANGED appVars

StoreLoad == \E n \in PdfNames : load(n)

InitStore ==
    /\ pc = "store"
    /\ clock = 1
    /\ NoProfile
    /\ NoSession
    /\ NoRepository

NextStore == StoreSave \/ StoreLoad

SpecStore == InitStore /\ [][NextStore]_vars

(***************************************************************************)
(* retrieve_relevant_chunks (src/src/retriever.py)                         *)
(* A float is a binary floating-point number with a significand of        *)
(* MantissaBits bits (float64 has 53) and an unbounded exponent, written   *)
(* as the fraction <<p, q>> of its value in lowest terms, q > 0. Every     *)
(* operation rounds its exact result to the nearest float, ties to even,   *)
(* as IEEE 754 does. The result of 0 / 0 (not-a-number) is <<0, 0>>, which *)
(* compares false with all.                                                *)
(***************************************************************************)
Abs(x) == IF x < 0 THEN 0 - x ELSE x

RECURSIVE Gcd(_, _)
Gcd(a, b) == IF b = 0 THEN a ELSE Gcd(b, a % b)

\* np.dot(vec1, vec2)
RECURSIVE DotUpTo(_, _, _)
DotUpTo(vec1, vec2, k) == IF k = 0 THEN 0 ELSE DotUpTo(vec1, vec2, k - 1) + vec1[k] * vec2[k]

Dot(vec1, vec2) == DotUpTo(vec1, vec2, Len(vec1))

\* np.linalg.norm(vec) squared
NormSquared(vec) == Dot(vec, vec)

NaN == <<0, 0>>

\* the number of bits of the significand
MantissaBits == 9

Pow2(k) == 2 ^ k

\* n / d in lowest terms
Fraction(n, d) == LET g == Gcd(Abs(n), d) IN <<n \div g, d \div g>>

\* the integer nearest to n / d, the even one of two equally near
RoundInt(n, d) ==
    LET q == n \div d
        r == n % d
    IN  IF 2 * r > d \/ (2 * r = d /\ q % 2 = 1) THEN q + 1 ELSE q

\* the float nearest to (n / d) * (up / down) for n / d > 0, with n / d scaled by
\* powers of two until its integer part has MantissaBits bits
RECURSIVE RoundScaled(_, _, _, _)
RoundScaled(n, d, up, down) ==
    IF n >= d * Pow2(MantissaBits) THEN RoundScaled(n, 2 * d, 2 * up, down)
    ELSE IF n < d * Pow2(MantissaBits - 1) THEN RoundScaled(2 * n, d, up, 2 * down)
    ELSE Fraction(RoundInt(n, d) * up, down)

\* the float nearest to n / d, for n >= 0 and d > 0
RoundTo(n, d) == IF n = 0 THEN <<0, 1>> ELSE RoundScaled(n, d, 1, 1)

\* the largest s in lo..hi with s * s <= y
RECURSIVE ISqrtIn(_, _, _)
ISqrtIn(y, lo, hi) ==
    IF lo = hi THEN lo
    ELSE LET mid == (lo + hi + 1) \div 2
         IN  IF mid * mid <= y THEN ISqrtIn(y, mid, hi) ELSE ISqrtIn(y, lo, mid - 1)

\* the integer nearest to the square root of y, given s, the largest with s * s <= y
NearestRoot(y, s) == IF y - s * s > s THEN s + 1 ELSE s

\* the float nearest to the square root of x = (x * 4^v) / 4^v, for an integer x with
\* 0 < x < 4^MantissaBits, with v raised until the root of x * 4^v has MantissaBits bits
RECURSIVE SqrtAt(_, _)
SqrtAt(x, v) ==
    IF x * Pow2(2 * v) < Pow2(2 * (MantissaBits - 1)) THEN SqrtAt(x, v + 1)
    ELSE RoundTo(NearestRoot(x * Pow2(2 * v), ISqrtIn(x * Pow2(2 * v), 0, Pow2(MantissaBits))),
                 Pow2(v))

\* np.linalg.norm(vec): the rounded square root of the sum of squares
Norm(vec) == IF NormSquared(vec) = 0 THEN <<0, 1>> ELSE SqrtAt(NormSquared(vec), 0)

\* -x
Negated(x) == <<0 - x[1], x[2]>>

\* a * b on floats a, b >= 0
FMul(a, b) == RoundTo(a[1] * b[1], a[2] * b[2])

\* d / m for an integer d and a float m >= 0
FDiv(d, m) ==
    IF m[1] = 0 THEN NaN
    ELSE IF d < 0 THEN Negated(RoundTo(Abs(d) * m[2], m[1]))
    ELSE RoundTo(d * m[2], m[1])

\* dot_product / (magnitude1 * magnitude2)
cosine_similarity(vec1, vec2) == FDiv(Dot(vec1, vec2), FMul(Norm(vec1), Norm(vec2)))

\* x < y on floats
Less(x, y) == x # NaN /\ y # NaN /\ x[1] * y[2] < y[1] * x[2]

\* faulty variant: an element goes before the elements of equal key
InsertDescBeforeEqual(sorted, x) ==
    LET before == {i \in 1..Len(sorted) : Less(x[2], sorted[i][2])}
        k == Cardinality(before)
    IN  SubSeq(sorted, 1, k) \o <<x>> \o SubSeq(sorted, k + 1, Len(sorted))

\* the place of x in a list sorted by descending key x[2]: after every element whose
\* key is not smaller (a stable sort keeps equal keys in their original order)
InsertDesc(sorted, x) ==
    LET before == {i \in 1..Len(sorted) : ~Less(sorted[i][2], x[2])}
        k == Cardinality(before)
    IN  SubSeq(sorted, 1, k) \o <<x>> \o SubSeq(sorted, k + 1, Len(sorted))

\* list.sort(key=lambda x: x[1], reverse=True)
RECURSIVE SortDescUpTo(_, _)
SortDescUpTo(list, k) ==
    IF k = 0 THEN <<>> ELSE InsertDesc(SortDescUpTo(list, k - 1), list[k])

SortDesc(list) == SortDescUpTo(list, Len(list))

Max(a, b) == IF a >= b THEN a ELSE b

\* faulty variant: the slice is one element short
PrefixOneShort(list, k) == SubSeq(list, 1, Max(Min(k, Len(list)) - 1, 0))

\* list[:k]
Prefix(list, k) ==
    IF k >= 0 THEN SubSeq(list, 1, Min(k, Len(list)))
    ELSE SubSeq(list, 1, Max(Len(list) + k, 0))

\* the (i, similarity) list of lines 100-103, i counted from 0
Similarities(query_embedding, embeddings) ==
    [i \in 1..Len(embeddings) |-> <<i - 1, cosine_similarity(query_embedding, embeddings[i])>>]

\* the (chunks[idx], score) list of lines 112-114
Results(chunks, top_results) ==
    [i \in 1..Len(top_results) |-> <<chunks[top_results[i][1] + 1], top_results[i][2]>>]

\* faulty variant: a missing file is taken for an empty document
NotFoundIgnored(chunks) == FALSE

\* `if chunks is None`
NotFound(chunks) == chunks = None

\* lines 83-87: VectorStore().load(pdf_name), and the error for a name never ingested
RetrieveLoad ==
    /\ pc = "r_load"
    /\ vector_store' = Some(Mkdir(vector_store))
    /\ LET loaded == LoadFrom(Mkdir(vector_store), retrieval.pdf_name)
       IN  IF NotFound(loaded[1])
           THEN /\ retrieval' = [retrieval EXCEPT !.raised = "ValueError"]
                /\ pc' = "r_raised"
           ELSE /\ retrieval' = [retrieval EXCEPT !.chunks = loaded[1],
                                                  !.embeddings = loaded[2]]
                /\ pc' = "r_embed"
    /\ UNCHANGED <<topic, max_turns, turn, session, question_data, current_question, context,
                   teaching_goal, student_answer, evaluation_data, calls>>
    /\ UNCHANGED <<profileVars, conceptVars, saved, store_call, chunking, appVars>>

\* the vectors the embedding model returns for a query
QueryEmbeddings == {<<1, 0>>, <<1, 1>>, <<0, 1>>}

EmbeddingCall(text, reply) == [fn |-> "create_embedding", text |-> text, reply |-> reply]

\* lines 92-97: create_embedding(query) returns
RetrieveEmbed ==
    /\ pc = "r_embed"
    /\ \E reply \in QueryEmbeddings :
          /\ retrieval' = [retrieval EXCEPT !.query_embedding = reply]
          /\ calls' = Append(calls, EmbeddingCall(retrieval.query, reply))
    /\ pc' = "r_rank"
    /\ UNCHANGED <<topic, max_turns, turn, session, question_data, current_question, context,
                   teaching_goal, student_answer, evaluation_data>>
    /\ UNCHANGED <<profileVars, conceptVars, vector_store, saved, store_call, chunking,
                   appVars>>

\* lines 99-121: score every chunk, sort, cut at top_k and return
RetrieveRank ==
    /\ pc = "r_rank"
    /\ LET similarities == SortDesc(Similarities(retrieval.query_embedding,
                                                  retrieval.embeddings[1]))
           top_results == Prefix(similarities, retrieval.top_k)
       IN  retrieval' = [retrieval EXCEPT
                            !.similarities = similarities,
                            !.top_results = top_results,
                            !.results = Some(Results(retrieval.chunks[1], top_results))]
    /\ pc' = "r_done"
    /\ UNCHANGED <<topic, max_turns, turn, session, question_data, current_question, context,
                   teaching_goal, student_answer, evaluation_data, calls>>
    /\ UNCHANGED <<profileVars, conceptVars, vector_store, saved, store_call, chunking,
                   appVars>>

\* the chunks of a saved store, each text with its embedding: two embeddings of the
\* same direction, an oblique one and an opposite one
StoredChunks ==
    {<<"T1", <<1, 0>>>>, <<"T2", <<2, 0>>>>, <<"T2", <<1, 1>>>>, <<"T1", <<0 - 1, 0>>>>}

\* the values of top_k
TopKs == (0 - 1)..(MaxStored + 1)

\* the store directories a retrieval can find: none, an empty one, or one in which
\* ch_1 was saved
IngestedStores ==
    {[vs |-> None, args |-> None], [vs |-> Some(Mkdir(None)), args |-> None]} \cup
    {[vs |-> Some([n \in PdfNames |->
                      IF n = "ch_1"
                      THEN Some(SaveData(n, [i \in 1..Len(e) |-> e[i][1]],
                                         [i \in 1..Len(e) |-> e[i][2]], 1))
                      ELSE None]),
      args |-> Some(<<[i \in 1..Len(e) |-> e[i][1]], [i \in 1..Len(e) |-> e[i][2]]>>)] :
        e \in SeqsUpTo(StoredChunks, MaxStored)}

InitRetrieve ==
    /\ pc = "r_load"
    /\ clock = 1
    /\ NoProfile
    /\ NoSession
    /\ \E st \in IngestedStores :
          /\ vector_store = st.vs
          /\ saved = [n \in PdfNames |-> IF n = "ch_1" THEN st.args ELSE None]
    /\ store_call = NoStoreCall
    /\ \E n \in PdfNames, k \in TopKs :
          retrieval = [NoRetrieval EXCEPT !.query = "What is a token?", !.pdf_name = n,
                                          !.top_k = k]
    /\ chunking = NoChunking
    /\ NoApplication

NextRetrieve == RetrieveLoad \/ RetrieveEmbed \/ RetrieveRank

SpecRetrieve == InitRetrieve /\ [][NextRetrieve]_vars

\* the embeddings of the degenerate case: a unit vector and the zero vector
DegenerateVectors == {<<1, 0>>, <<0, 0>>}

\* the stores in which ch_1 was saved with at least one zero-magnitude embedding
DegenerateStores ==
    {[vs |-> Some([n \in PdfNames |->
                      IF n = "ch_1"
                      THEN Some(SaveData(n, [i \in 1..Len(e) |-> e[i][1]],
                                         [i \in 1..Len(e) |-> e[i][2]], 1))
                      ELSE None]),
      args |-> Some(<<[i \in 1..Len(e) |-> e[i][1]], [i \in 1..Len(e) |-> e[i][2]]>>)] :
        e \in {x \in SeqsUpTo(ChunkTexts \X DegenerateVectors, MaxStored) :
                  \E i \in 1..Len(x) : NormSquared(x[i][2]) = 0}}

\* a retrieval from a store that holds a zero-magnitude embedding
InitDegenerate ==
    /\ pc = "r_load"
    /\ clock = 1
    /\ NoProfile
    /\ NoSession
    /\ \E st \in DegenerateStores :
          /\ vector_store = st.vs
          /\ saved = [n \in PdfNames |-> IF n = "ch_1" THEN st.args ELSE None]
    /\ store_call = NoStoreCall
    /\ \E k \in TopKs :
          retrieval = [NoRetrieval EXCEPT !.query = "What is a token?", !.pdf_name = "ch_1",
                                          !.top_k = k]
    /\ chunking = NoChunking
    /\ NoApplication

SpecDegenerate == InitDegenerate /\ [][NextRetrieve]_vars

\* the vectors of dimension dim with coordinates in -MaxCoordinate..MaxCoordinate
VectorsOf(dim) == [1..dim -> (0 - MaxCoordinate)..MaxCoordinate]

\* the dimensions of the vectors compared
Dimensions == {2, 3}

\* one call of cosine_similarity(vec1, vec2)
CosineCall ==
    /\ pc = "cos_call"
    /\ cosine' = [cosine EXCEPT !.result = Some(cosine_similarity(cosine.vec1, cosine.vec2))]
    /\ pc' = "cos_done"
    /\ UNCHANGED <<topic, max_turns, turn, session, question_data, current_question, context,
                   teaching_goal, student_answer, evaluation_data, calls>>
    /\ UNCHANGED <<profileVars, conceptVars, repoVars, answering, cli, writers, display>>

\* a call on two vectors of equal dimension
InitCosine ==
    /\ pc = "cos_call"
    /\ clock = 1
    /\ NoProfile
    /\ NoSession
    /\ NoRepositoryFiles
    /\ answering = NoAnswering
    /\ cli = NoCli
    /\ writers = NoWriters
    /\ display = NoDisplay
    /\ \E dim \in Dimensions : \E vec1 \in VectorsOf(dim), vec2 \in VectorsOf(dim) :
          cosine = [NoCosine EXCEPT !.vec1 = vec1, !.vec2 = vec2]

NextCosine == CosineCall

SpecCosine == InitCosine /\ [][NextCosine]_vars

(***************************************************************************)
(* answer_query and create_qa_prompt (src/src/qa_system.py)                *)
(* A prompt text is the sequence of the pieces it is made of.              *)
(***************************************************************************)
\* the separator of create_qa_prompt
Separator == "\n\n---\n\n"

\* sep.join(list)
RECURSIVE Join(_, _)
Join(list, sep) ==
    IF list = <<>> THEN <<>>
    ELSE IF Len(list) = 1 THEN <<list[1]>>
    ELSE <<Head(list), sep>> \o Join(Tail(list), sep)

\* [chunk for chunk, score in context_chunks]
ChunksText(context_chunks) == [i \in 1..Len(context_chunks) |-> context_chunks[i][1]]

\* create_qa_prompt(query, context_chunks): the system message and the user message
create_qa_prompt(query, context_chunks) ==
    <<[role |-> "system", content |-> <<"rules">>],
      [role |-> "user",
       content |-> <<"Context from textbook: ">> \o Join(ChunksText(context_chunks), Separator)
                      \o <<"Question: ", query>>]>>

\* the top_k that answer_query hands to retrieve_relevant_chunks, whatever its own top_k
RetrievalTopK(top_k) == 3

\* the texts the completion model returns
AnswerReplies == {"A1", "I cannot find this answer in the material provided"}

CompletionCall(messages, reply) ==
    [fn |-> "chat.completions.create", messages |-> messages, reply |-> reply]

\* lines 143-150: the call of retrieve_relevant_chunks
AnswerRetrieve ==
    /\ pc = "a_start"
    /\ retrieval' = [NoRetrieval EXCEPT !.query = answering.query,
                                        !.pdf_name = answering.pdf_name,
                                        !.top_k = RetrievalTopK(answering.top_k)]
    /\ pc' = "r_load"
    /\ UNCHANGED <<topic, max_turns, turn, session, question_data, current_question, context,
                   teaching_goal, student_answer, evaluation_data, calls>>
    /\ UNCHANGED <<profileVars, conceptVars, vector_store, saved, store_call, chunking,
                   appVars>>

\* faulty variant: the exception is swallowed and an empty answer is returned
AnswerSwallowed ==
    /\ pc = "r_raised" /\ answering.running
    /\ answering' = [answering EXCEPT !.answer = Some("")]
    /\ pc' = "a_done"
    /\ UNCHANGED <<topic, max_turns, turn, session, question_data, current_question, context,
                   teaching_goal, student_answer, evaluation_data, calls>>
    /\ UNCHANGED <<profileVars, conceptVars, repoVars, cli, writers, cosine, display>>

\* the exception of retrieve_relevant_chunks leaves answer_query: no handler in it
AnswerPropagate ==
    /\ pc = "r_raised" /\ answering.running
    /\ answering' = [answering EXCEPT !.raised = retrieval.raised]
    /\ pc' = "a_raised"
    /\ UNCHANGED <<topic, max_turns, turn, session, question_data, current_question, context,
                   teaching_goal, student_answer, evaluation_data, calls>>
    /\ UNCHANGED <<profileVars, conceptVars, repoVars, cli, writers, cosine, display>>

\* lines 153-225: the prompt, the completion call, the metadata and the return; the
\* average of no similarity scores at all divides by zero, after the call
AnswerComplete ==
    /\ pc = "r_done" /\ answering.running
    /\ LET context_chunks == retrieval.results[1]
           messages == create_qa_prompt(answering.query, context_chunks)
       IN  \E reply \in AnswerReplies :
              /\ calls' = Append(calls, CompletionCall(messages, reply))
              /\ IF Len(context_chunks) = 0
                 THEN /\ answering' = [answering EXCEPT
                                          !.context_chunks = Some(context_chunks),
                                          !.messages = Some(messages),
                                          !.raised = "ZeroDivisionError"]
                      /\ pc' = "a_raised"
                 ELSE /\ answering' = [answering EXCEPT
                                          !.context_chunks = Some(context_chunks),
                                          !.messages = Some(messages),
                                          !.answer = Some(reply)]
                      /\ pc' = "a_done"
    /\ UNCHANGED <<topic, max_turns, turn, session, question_data, current_question, context,
                   teaching_goal, student_answer, evaluation_data>>
    /\ UNCHANGED <<profileVars, conceptVars, repoVars, cli, writers, cosine, display>>

InitAnswer ==
    /\ pc = "a_start"
    /\ clock = 1
    /\ NoProfile
    /\ NoSession
    /\ \E st \in IngestedStores :
          /\ vector_store = st.vs
          /\ saved = [n \in PdfNames |-> IF n = "ch_1" THEN st.args ELSE None]
    /\ store_call = NoStoreCall
    /\ retrieval = NoRetrieval
    /\ chunking = NoChunking
    /\ \E n \in PdfNames, k \in TopKs :
          answering = [NoAnswering EXCEPT !.running = TRUE, !.query = "What is a token?",
                                         !.pdf_name = n, !.top_k = k]
    /\ cli = NoCli
    /\ writers = NoWriters
    /\ cosine = NoCosine /\ display = NoDisplay

NextAnswer ==
    \/ AnswerRetrieve \/ RetrieveLoad \/ RetrieveEmbed \/ RetrieveRank
    \/ AnswerPropagate \/ AnswerComplete

SpecAnswer == InitAnswer /\ [][NextAnswer]_vars

(***************************************************************************)
(* The command-line programs ask.py and teach.py (src/ask.py, src/teach.py)*)
(* cli.exit is the status of sys.exit or of the normal end of main;        *)
(* cli.exception names the exception that left main and ended the program. *)
(***************************************************************************)
\* the document both programs work on ("chip_huyen_ch_1")
CliPdfName == "ch_1"

\* ask.py line 39
AskQuitWords == {"quit", "exit", "q"}

\* ask.py line 50: top_k=3
AskTopK == 3

\* teach.py lines 21-27
TeachPyTopics ==
    <<"self-supervision", "tokens", "embeddings", "foundation models", "language models">>

\* teach.py line 46: max_turns=5, cut at the bound of the turns of a session
TeachPyMaxTurns == Min(5, MaxTurnsBound)

\* what the user types at the topic prompt
TopicInputs == {"2", "0", "9", "x"}

\* int(user_input): <<>> stands for the ValueError
ParseInt(str) ==
    CASE str = "2" -> Some(2)
      [] str = "0" -> Some(0)
      [] str = "9" -> Some(9)
      [] OTHER -> None

RunningCli(program) ==
    [program |-> program, question |-> None, asked |-> 0, output |-> <<>>, exit |-> None,
     exception |-> "", session_file |-> None]

CliFrame ==
    UNCHANGED <<profileVars, topic, max_turns, turn, session, question_data,
                current_question, context, teaching_goal, student_answer, evaluation_data,
                calls, conceptVars, vector_store, saved, store_call, retrieval, chunking,
                answering, writers, cosine, display>>

\* ask.py lines 32-50: input() returns; quit words leave, an empty question prompts
\* again, any other question is handed to answer_query
AskQuestion(raw) ==
    /\ pc = "ask_prompt"
    /\ LET question == Strip(raw)
       IN  IF Lower(question) \in AskQuitWords
           THEN /\ cli' = [cli EXCEPT !.question = Some(question), !.exit = Some(0)]
                /\ pc' = "cli_exit"
                /\ UNCHANGED answering
           ELSE IF question = ""
           THEN /\ cli' = [cli EXCEPT !.question = Some(question)]
                /\ UNCHANGED <<pc, answering>>
           ELSE /\ cli.asked < MaxQuestions
                /\ cli' = [cli EXCEPT !.question = Some(question), !.asked = @ + 1]
                /\ answering' = [NoAnswering EXCEPT !.running = TRUE, !.query = question,
                                                    !.pdf_name = CliPdfName,
                                                    !.top_k = AskTopK]
                /\ pc' = "a_start"
    /\ UNCHANGED <<profileVars, topic, max_turns, turn, session, question_data,
                   current_question, context, teaching_goal, student_answer,
                   evaluation_data, calls, conceptVars, repoVars, writers, cosine, display>>

AskInput == \E raw \in RawInputs : AskQuestion(raw)

\* ask.py lines 34-36: KeyboardInterrupt at the prompt
AskInterrupt ==
    /\ pc = "ask_prompt"
    /\ cli' = [cli EXCEPT !.exit = Some(0)]
    /\ pc' = "cli_exit"
    /\ CliFrame

\* ask.py lines 50 and 55: answer_query returned
AskAnswered ==
    /\ pc = "a_done" /\ cli.program = "ask"
    /\ answering' = [answering EXCEPT !.running = FALSE]
    /\ pc' = "ask_prompt"
    /\ UNCHANGED cli
    /\ UNCHANGED <<profileVars, topic, max_turns, turn, session, question_data,
                   current_question, context, teaching_goal, student_answer,
                   evaluation_data, calls, conceptVars, repoVars, writers, cosine, display>>

\* ask.py lines 51-55: `except Exception` prints the error and the hint
AskCaught ==
    /\ pc = "a_raised" /\ cli.program = "ask"
    /\ cli' = [cli EXCEPT !.output = @ \o <<"Error: " \o answering.raised,
                                            "Make sure you have run process_pdf.py first">>]
    /\ answering' = [answering EXCEPT !.running = FALSE]
    /\ pc' = "ask_prompt"
    /\ UNCHANGED <<profileVars, topic, max_turns, turn, session, question_data,
                   current_question, context, teaching_goal, student_answer,
                   evaluation_data, calls, conceptVars, repoVars, writers, cosine, display>>

\* teach.py lines 33-46: the topic number is read; teach_topic starts its session and
\* generate_teaching_question retrieves the context of the first question, which raises
\* ValueError for a document never ingested; no handler encloses the call
TeachTopicChosen(user_input) ==
    /\ pc = "teach_input"
    /\ LET topic_number == ParseInt(Strip(user_input))
       IN  IF topic_number = None
           THEN \* line 38 prints, line 40 then reads the unbound topic_number
                /\ cli' = [cli EXCEPT
                              !.output = Append(@, "Invalid input. Please enter a valid number"),
                              !.exception = "UnboundLocalError"]
                /\ pc' = "cli_crashed"
                /\ UNCHANGED <<topic, max_turns, session, vector_store>>
           ELSE IF topic_number[1] <= 0 \/ topic_number[1] > Len(TeachPyTopics)
           THEN /\ cli' = [cli EXCEPT !.output = Append(@, "Not a valid selection. Bye!"),
                                      !.exit = Some(0)]
                /\ pc' = "cli_exit"
                /\ UNCHANGED <<topic, max_turns, session, vector_store>>
           ELSE /\ topic' = TeachPyTopics[topic_number[1]]
                /\ max_turns' = TeachPyMaxTurns
                /\ session' = [topic |-> TeachPyTopics[topic_number[1]], transcript |-> <<>>,
                               final_assessment |-> None]
                /\ vector_store' = Some(Mkdir(vector_store))
                /\ IF NotFound(LoadFrom(Mkdir(vector_store), CliPdfName)[1])
                   THEN /\ cli' = [cli EXCEPT !.exception = "ValueError"]
                        /\ pc' = "cli_crashed"
                   ELSE /\ UNCHANGED cli
                        /\ pc' = "t_gen"
    /\ UNCHANGED <<profileVars, turn, question_data, current_question, context, teaching_goal,
                   student_answer, evaluation_data, calls, conceptVars, saved, store_call,
                   retrieval, chunking, answering, writers, cosine, display>>

TeachTopicInput == \E user_input \in TopicInputs : TeachTopicChosen(user_input)

\* teach.py lines 48-81: the offer to save the transcript, and the end of main
TeachSaveChosen(save_input) ==
    /\ pc = "t_done" /\ cli.program = "teach"
    /\ cli' = [cli EXCEPT !.session_file = IF save_input = "y" THEN Some(session) ELSE None,
                          !.exit = Some(0)]
    /\ pc' = "cli_exit"
    /\ CliFrame

TeachSaveInput == \E save_input \in {"y", "n"} : TeachSaveChosen(save_input)

\* the stores the programs can find: no directory, an empty one, or ch_1 ingested
CliStores ==
    {st \in IngestedStores :
        st.args = None \/ st.args = Some(<<<<"T1", "T2">>, <<<<1, 0>>, <<1, 1>>>>>>)}

InitCli ==
    /\ clock = 1
    /\ NoProfile
    /\ NoSession
    /\ \E st \in CliStores :
          /\ vector_store = st.vs
          /\ saved = [n \in PdfNames |-> IF n = "ch_1" THEN st.args ELSE None]
    /\ store_call = NoStoreCall
    /\ retrieval = NoRetrieval
    /\ chunking = NoChunking
    /\ answering = NoAnswering
    /\ writers = NoWriters
    /\ cosine = NoCosine /\ display = NoDisplay
    /\ \/ pc = "ask_prompt" /\ cli = RunningCli("ask")
       \/ pc = "teach_input" /\ cli = RunningCli("teach")

NextCli ==
    \/ AskInput \/ AskInterrupt \/ AskAnswered \/ AskCaught
    \/ NextAnswer
    \/ TeachTopicInput \/ TeachSaveInput
    \/ NextTeach

SpecCli == InitCli /\ [][NextCli]_vars

(***************************************************************************)
(* chunk_text_by_chars and chunk_text_by_tokens (src/src/pdf_processor.py) *)
(* A str is a sequence of characters. A token is the sequence of the       *)
(* characters it stands for; the tokenizer joins some pairs of characters  *)
(* into one token, so a text has fewer tokens than characters.             *)
(***************************************************************************)
NL == "\n"

Whitespace == {" ", NL}

\* the characters of the input texts
Alphabet == {"A", "B", " ", NL, "-"}

\* s[i:i+len(p)] == p
MatchesAt(str, p, i) ==
    /\ i + Len(p) - 1 <= Len(str)
    /\ \A k \in 1..Len(p) : str[i + k - 1] = p[k]

\* str.replace(old, new): the occurrences from left to right, without overlap
RECURSIVE ReplaceFrom(_, _, _, _)
ReplaceFrom(str, old, new, i) ==
    IF i > Len(str) THEN <<>>
    ELSE IF MatchesAt(str, old, i) THEN new \o ReplaceFrom(str, old, new, i + Len(old))
    ELSE <<str[i]>> \o ReplaceFrom(str, old, new, i + 1)

Replace(str, old, new) == ReplaceFrom(str, old, new, 1)

PageHeader == <<"-", "-", "-", " ", "P", "a", "g", "e">>
Dashes == <<"-", "-", "-">>
PAGE_MARKER == <<"P", "A", "G", "E", "_", "M", "A", "R", "K", "E", "R">>
PAGEMARKER == <<"P", "A", "G", "E", "M", "A", "R", "K", "E", "R">>

\* str.split("\n")
RECURSIVE SplitFrom(_, _, _)
SplitFrom(str, i, piece) ==
    IF i > Len(str) THEN <<piece>>
    ELSE IF str[i] = NL THEN <<piece>> \o SplitFrom(str, i + 1, <<>>)
    ELSE SplitFrom(str, i + 1, Append(piece, str[i]))

Split(str) == SplitFrom(str, 1, <<>>)

\* str.lstrip()
RECURSIVE LStrip(_)
LStrip(str) ==
    IF str # <<>> /\ str[1] \in Whitespace THEN LStrip(Tail(str)) ELSE str

\* str.rstrip()
RECURSIVE RStrip(_)
RStrip(str) ==
    IF str # <<>> /\ str[Len(str)] \in Whitespace
    THEN RStrip(SubSeq(str, 1, Len(str) - 1)) ELSE str

\* str.strip()
StripStr(str) == RStrip(LStrip(str))

\* [f(x) for x in list if x.strip()], with f the identity or strip
RECURSIVE NonEmptyLines(_, _)
NonEmptyLines(list, stripped) ==
    IF list = <<>> THEN <<>>
    ELSE IF StripStr(Head(list)) = <<>> THEN NonEmptyLines(Tail(list), stripped)
    ELSE <<IF stripped THEN StripStr(Head(list)) ELSE Head(list)>>
             \o NonEmptyLines(Tail(list), stripped)

\* s[-overlap:]: the last `overlap` elements, and the whole of s when overlap is 0
LastUnits(str, overlap) ==
    IF overlap = 0 THEN str
    ELSE SubSeq(str, Max(Len(str) - overlap, 0) + 1, Len(str))

\* the pairs of characters the tokenizer joins into one token
Merges == {<<"A", "A">>, <<" ", "B">>}

\* encoding.encode(line)
RECURSIVE EncodeFrom(_, _)
EncodeFrom(str, i) ==
    IF i > Len(str) THEN <<>>
    ELSE IF i < Len(str) /\ <<str[i], str[i + 1]>> \in Merges
    THEN <<<<str[i], str[i + 1]>>>> \o EncodeFrom(str, i + 2)
    ELSE <<<<str[i]>>>> \o EncodeFrom(str, i + 1)

Encode(str) == EncodeFrom(str, 1)

\* a decoder that gives back the first character of every token only
RECURSIVE DecodeFirstCharacters(_)
DecodeFirstCharacters(tokens) ==
    IF tokens = <<>> THEN <<>>
    ELSE <<Head(tokens)[1]>> \o DecodeFirstCharacters(Tail(tokens))

\* encoding.decode(tokens)
RECURSIVE Decode(_)
Decode(tokens) == IF tokens = <<>> THEN <<>> ELSE Head(tokens) \o Decode(Tail(tokens))

\* `len(current) + len(line) < chunk_size`
Fits(current, line, chunk_size) == Len(current) + Len(line) < chunk_size

Line == chunking.lines[chunking.line_idx]

ChunkerFrame ==
    UNCHANGED <<profileVars, topic, max_turns, turn, session, question_data,
                current_question, context, teaching_goal, student_answer, evaluation_data,
                calls, conceptVars, vector_store, saved, store_call, retrieval, appVars>>

\* chunk_text_by_chars lines 83-92: page markers, split, strip, drop the empty lines
CharsSplit ==
    /\ pc = "k_split" /\ chunking.by = "chars"
    /\ chunking' = [chunking EXCEPT
                       !.lines = NonEmptyLines(
                                    Split(Replace(Replace(chunking.text, PageHeader,
                                                          PAGE_MARKER), Dashes, <<>>)),
                                    TRUE),
                       !.line_idx = 1]
    /\ pc' = "k_line"
    /\ ChunkerFrame

\* chunk_text_by_chars lines 94-102: one iteration of the loop over the lines
CharsLine ==
    /\ pc = "k_line" /\ chunking.by = "chars"
    /\ chunking.line_idx <= Len(chunking.lines)
    /\ IF Fits(chunking.current_chunk, Line, chunking.chunk_size)
       THEN chunking' = [chunking EXCEPT
                            !.current_chunk = @ \o <<NL>> \o Line,
                            !.line_idx = @ + 1]
       ELSE chunking' = [chunking EXCEPT
                            !.chunks = Append(@, chunking.current_chunk),
                            !.current_chunk =
                                LastUnits(@, chunking.overlap) \o <<NL>> \o Line,
                            !.line_idx = @ + 1]
    /\ UNCHANGED pc
    /\ ChunkerFrame

\* chunk_text_by_chars lines 104-123: the final chunk, the average size, the return
CharsFlush ==
    /\ pc = "k_line" /\ chunking.by = "chars"
    /\ chunking.line_idx > Len(chunking.lines)
    /\ LET chunks == IF chunking.current_chunk # <<>>
                     THEN Append(chunking.chunks, StripStr(chunking.current_chunk))
                     ELSE chunking.chunks
       IN  IF chunks = <<>>
           THEN /\ chunking' = [chunking EXCEPT !.raised = "StatisticsError"]
                /\ pc' = "k_raised"
           ELSE /\ chunking' = [chunking EXCEPT !.chunks = chunks,
                                                !.returned = Some(chunks)]
                /\ pc' = "k_done"
    /\ ChunkerFrame

\* chunk_text_by_tokens lines 158-170: page markers, split, drop the empty lines
TokensSplit ==
    /\ pc = "k_split" /\ chunking.by = "tokens"
    /\ chunking' = [chunking EXCEPT
                       !.lines = NonEmptyLines(
                                    Split(Replace(Replace(chunking.text, PageHeader,
                                                          PAGEMARKER), Dashes, <<>>)),
                                    FALSE),
                       !.line_idx = 1]
    /\ pc' = "k_line"
    /\ ChunkerFrame

\* chunk_text_by_tokens lines 173-185: one iteration of the loop over the lines
TokensLine ==
    /\ pc = "k_line" /\ chunking.by = "tokens"
    /\ chunking.line_idx <= Len(chunking.lines)
    /\ LET line_tokens == Encode(Line)
       IN  IF Fits(chunking.current_tokens, line_tokens, chunking.chunk_size)
           THEN chunking' = [chunking EXCEPT
                                !.current_tokens = @ \o line_tokens,
                                !.line_idx = @ + 1]
           ELSE chunking' = [chunking EXCEPT
                                !.chunks = Append(@, Decode(chunking.current_tokens)),
                                !.chunk_tokens = Append(@, chunking.current_tokens),
                                !.current_tokens =
                                    LastUnits(@, chunking.overlap) \o line_tokens,
                                !.line_idx = @ + 1]
    /\ UNCHANGED pc
    /\ ChunkerFrame

\* chunk_text_by_tokens lines 187-206: the final chunk, the average size, the return
TokensFlush ==
    /\ pc = "k_line" /\ chunking.by = "tokens"
    /\ chunking.line_idx > Len(chunking.lines)
    /\ LET chunks == Append(chunking.chunks, Decode(chunking.current_tokens))
       IN  chunking' = [chunking EXCEPT
                           !.chunks = chunks,
                           !.chunk_tokens = Append(@, chunking.current_tokens),
                           !.returned = Some(chunks)]
    /\ pc' = "k_done"
    /\ ChunkerFrame

InitChunk ==
    /\ pc = "k_split"
    /\ clock = 1
    /\ NoProfile
    /\ NoSession
    /\ vector_store = None
    /\ saved = [n \in PdfNames |-> None]
    /\ store_call = NoStoreCall
    /\ retrieval = NoRetrieval
    /\ NoApplication
    /\ \E by \in {"chars", "tokens"}, text \in SeqsUpTo(Alphabet, MaxTextLen),
          chunk_size \in 1..MaxChunkSize :
          \E overlap \in 0..(chunk_size - 1) :
             chunking = [NoChunking EXCEPT !.by = by, !.text = text,
                                           !.chunk_size = chunk_size, !.overlap = overlap]

NextChunk ==
    \/ CharsSplit \/ CharsLine \/ CharsFlush
    \/ TokensSplit \/ TokensLine \/ TokensFlush

SpecChunk == InitChunk /\ [][NextChunk]_vars

(***************************************************************************)
(* display_progress without a topic: _display_all_progress                 *)
(* (src/src/student_profile.py)                                            *)
(* A topic map is None or <<m>>, m giving for each topic None (the topic   *)
(* is not in topic_map["topics"]) or <<concepts>>, its "concepts" list.    *)
(***************************************************************************)
\* the calls of update_concept_progress that built the profile displayed
UpdateArgs == Topics \X Concepts \X {"learned", "weak"}

\* the profile after the updates of list `updates`, from a new profile
RECURSIVE ProfileAfter(_, _)
ProfileAfter(updates, k) ==
    IF k = 0 THEN NewProfileData(1)
    ELSE UpdatedData(ProfileAfter(updates, k - 1), updates[k][1], updates[k][2],
                     updates[k][3], 1)

DisplayProfiles == {ProfileAfter(u, Len(u)) : u \in SeqsUpTo(UpdateArgs, MaxUpdates)}

\* the concept lists a topic map holds for a topic
MapConcepts == {<<>>, <<"definition">>, <<"definition", "usage">>}

TopicMaps == {None} \cup {Some(m) : m \in [Topics -> {None} \cup {Some(l) : l \in MapConcepts}]}

\* `all_concepts`: the topic map's list for the topic, [] when there is no map or no
\* entry
AllConcepts(topic_map, t) ==
    IF topic_map # None /\ topic_map[1][t] # None THEN topic_map[1][t][1] ELSE <<>>

\* `total = len(all_concepts) if all_concepts else (learned + weak)`
TotalOf(all_concepts, learned, weak) ==
    IF Len(all_concepts) > 0 THEN Len(all_concepts) ELSE learned + weak

\* `int((learned / total) * 100)`: for total < 50 the float product truncates to the
\* integer quotient (the first difference is 29 / 50, which gives 57)
Percentage(learned, total) == (learned * 100) \div total

\* the length of `'x' * n`: nothing for a negative n
Repeated(n) == IF n < 0 THEN 0 ELSE n

\* the line printed for topic t, None when total is 0
ProgressLine(d, topic_map, t) ==
    LET learned == Len(LearnedOf(d, t))
        weak == Len(WeakOf(d, t))
        total == TotalOf(AllConcepts(topic_map, t), learned, weak)
        progress_percentage == Percentage(learned, total)
        num_progress_blocks == progress_percentage \div 10
        num_weak_blocks == 10 - num_progress_blocks
    IN  IF total > 0
        THEN Some([topic |-> t, learned |-> learned, total |-> total,
                   progress_percentage |-> progress_percentage,
                   bar |-> Repeated(num_progress_blocks) + Repeated(num_weak_blocks)])
        ELSE None

\* _display_all_progress(topic_map): one line for each topic of the profile, in order
DisplayAllProgress ==
    /\ pc = "display"
    /\ display' = [display EXCEPT !.printed =
                      Some([i \in 1..Len(Data.topics) |->
                               ProgressLine(Data, display.topic_map, Data.topics[i][1])])]
    /\ lastOp' = [NoOp EXCEPT !.op = "display"]
    /\ pc' = "displayed"
    /\ UNCHANGED <<topic, max_turns, turn, session, question_data, current_question, context,
                   teaching_goal, student_answer, evaluation_data, calls>>
    /\ UNCHANGED <<clock, file, data, latest, conceptVars, repoVars, answering, cli, writers,
                   cosine>>

InitDisplay ==
    /\ pc = "display"
    /\ clock = 1
    /\ \E d \in DisplayProfiles :
          /\ data = Some(d)
          /\ file = SaveAs(d)
          /\ latest = [t \in Topics |-> [c \in Concepts |-> StatusIn(d, t, c)]]
    /\ lastOp = NoOp
    /\ NoSession
    /\ NoRepositoryFiles
    /\ answering = NoAnswering /\ cli = NoCli /\ writers = NoWriters /\ cosine = NoCosine
    /\ \E m \in TopicMaps : display = [NoDisplay EXCEPT !.topic_map = m]

NextDisplay == DisplayAllProgress

SpecDisplay == InitDisplay /\ [][NextDisplay]_vars

(***************************************************************************)
(* Properties of StudentProfile                                            *)
(***************************************************************************)
Count(x, list) == Cardinality({i \in 1..Len(list) : list[i] = x})

\* every topic's two lists, in dict order, without last_studied
Lists(d) ==
    [i \in 1..Len(d.topics) |->
        <<d.topics[i][1], d.topics[i][2].concepts_learned, d.topics[i][2].concepts_weak>>]

\* C1: a concept whose most recent update was "learned" or "weak" occurs exactly once
\* in the list of that name and not at all in the other list of its topic.
C1_ExactlyOneList ==
    data # None =>
        \A t \in Topics, c \in Concepts :
            /\ latest[t][c] = "learned" =>
                  Count(c, LearnedOf(Data, t)) = 1 /\ Count(c, WeakOf(Data, t)) = 0
            /\ latest[t][c] = "weak" =>
                  Count(c, WeakOf(Data, t)) = 1 /\ Count(c, LearnedOf(Data, t)) = 0

\* the spec's scenario: "learned" then "weak" for the same concept
C1_Witness ==
    /\ data # None
    /\ lastOp.op = "update" /\ lastOp.status = "weak"
    /\ latest[lastOp.topic][lastOp.concept] = "weak"
    /\ \E t \in Topics, c \in Concepts : latest[t][c] = "learned"
    /\ In(lastOp.concept, WeakOf(Data, lastOp.topic))
    /\ Len(WeakOf(Data, lastOp.topic)) = 2

\* C2: a call of update_concept_progress that repeats the call before it with the same
\* (topic, concept, status) leaves every concepts_learned and concepts_weak list as it was,
\* contents and order; only last_studied may change.
C2_Idempotent ==
    [][(lastOp'.op = "update" /\ lastOp'.rep = 2) => Lists(data'[1]) = Lists(Data)]_vars

C2_Witness ==
    /\ lastOp.op = "update" /\ lastOp.rep = 2
    /\ Len(LearnedOf(Data, lastOp.topic)) + Len(WeakOf(Data, lastOp.topic)) = 2
    /\ DictGet(Data.topics, lastOp.topic).last_studied = Some(MaxClock)

\* C3: whenever a StudentProfile exists, the profile file exists and holds exactly the
\* in-memory data; constructing a profile whose file exists leaves the file as it is and
\* loads the state the previous instance had.
C3_WriteThrough ==
    /\ [](data # None => (file = Some(JsonDump(Data)) /\ JsonLoad(file[1]) = Data))
    /\ [][(lastOp'.op = "construct" /\ file # None) =>
            (file' = file /\ data' = Some(JsonLoad(file[1])) /\ (data # None => data' = data))]_vars

C3_Witness ==
    /\ lastOp.op = "construct"
    /\ data # None
    /\ Len(Data.topics) = 2
    /\ \E t \in Topics : Len(LearnedOf(Data, t)) = 1 /\ Len(WeakOf(Data, t)) = 1

\* a call of get_topic_progress(t) for a topic with no entry returns
UnseenRead(t) ==
    /\ data # None
    /\ ~HasKey(Data.topics, t)
    /\ lastOp'.op = "get" /\ lastOp'.topic = t

\* the effect of such a call: the empty value returned, nothing changed, no entry made
C29_Step ==
    \A t \in Topics :
        UnseenRead(t) =>
            /\ lastOp'.returned = None
            /\ data' = data
            /\ file' = file
            /\ ~HasKey(data'[1].topics, t)

\* the call returns whenever a profile exists: it has no failing outcome
C29_Returns ==
    (pc = "profile" /\ data # None) => \A t \in Topics : ENABLED GetTopicProgressOf(t)

\* C29: get_topic_progress(topic) for a topic that was never updated returns the empty
\* progress value, raises nothing, and leaves the profile as it is in memory and on
\* disk, with no entry made for the topic
C29_UnseenTopicRead == []C29_Returns /\ [][C29_Step]_vars

\* an unseen topic was read from a profile that holds another topic
C29_Witness ==
    /\ lastOp.op = "get" /\ lastOp.returned = None
    /\ ~HasKey(Data.topics, lastOp.topic)
    /\ Len(Data.topics) > 0
    /\ file = SaveAs(Data)

\* concept c of topic t is in the same lists before and after the step
SameMembership(t, c) ==
    /\ In(c, LearnedOf(data'[1], t)) <=> In(c, LearnedOf(Data, t))
    /\ In(c, WeakOf(data'[1], t)) <=> In(c, WeakOf(Data, t))

\* C36: update_concept_progress with a status other than "learned" or "weak" leaves the
\* concept in whichever of concepts_learned and concepts_weak it was in
C36_Step ==
    (data # None /\ lastOp'.op = "update" /\ lastOp'.status \notin {"learned", "weak"}) =>
        SameMembership(lastOp'.topic, lastOp'.concept)

C36_OtherStatusKeepsMembership == [][C36_Step]_vars

\* the entry of topic t, None when the topic has none
EntryOf(d, t) == IF HasKey(d.topics, t) THEN Some(DictGet(d.topics, t)) ELSE None

\* the step leaves everything but concept c of topic t as it was
OnlyNamedEntry(t, c) ==
    /\ \A t2 \in Topics \ {t} : EntryOf(data'[1], t2) = EntryOf(Data, t2)
    /\ \A c2 \in Concepts \ {c} : SameMembership(t, c2)
    /\ data'[1].student_id = Data.student_id
    /\ data'[1].created_at = Data.created_at

\* C37: update_concept_progress(topic, concept, status) changes only the named topic's
\* entry: every other topic's entry, the membership of every other concept of the topic,
\* student_id and created_at are unchanged in memory and in the file
C37_Step ==
    (data # None /\ lastOp'.op = "update") =>
        /\ OnlyNamedEntry(lastOp'.topic, lastOp'.concept)
        /\ file' # None /\ JsonLoad(file'[1]) = data'[1]

C37_OnlyNamedEntry == [][C37_Step]_vars

\* an update of one topic in a profile that holds another topic and another concept of
\* the same topic
C37_Witness ==
    /\ lastOp.op = "update" /\ lastOp.topic = "tokens" /\ lastOp.concept = "usage"
    /\ lastOp.status = "weak"
    /\ In("definition", LearnedOf(Data, "tokens"))
    /\ In("usage", WeakOf(Data, "tokens"))
    /\ In("definition", WeakOf(Data, "embeddings"))
    /\ file = SaveAs(Data)

\* the lines display_progress printed
PrintedLines == {i \in 1..Len(display.printed[1]) : display.printed[1][i] # None}

\* the total the claim names: the topic map's concept count when the map has concepts
\* for the topic, learned + weak otherwise
ClaimedTotal(line) ==
    LET listed == AllConcepts(display.topic_map, line.topic)
    IN  IF Len(listed) > 0 THEN Len(listed)
        ELSE line.learned + Len(WeakOf(Data, line.topic))

\* C38: the mastery percentage display_progress shows for a topic is
\* learned * 100 / total truncated, lies in 0..100 and comes with a bar of ten blocks,
\* the total being the topic map's concept count when available and learned + weak
\* otherwise
C38_PercentageInRange ==
    pc = "displayed" =>
        \A i \in PrintedLines :
            LET line == display.printed[1][i][1]
            IN  /\ line.total = ClaimedTotal(line)
                /\ line.progress_percentage = (line.learned * 100) \div line.total
                /\ line.progress_percentage \in 0..100
                /\ line.bar = 10

\* the parts of C38 that hold: the total and the quotient
C38_TotalAndQuotient ==
    pc = "displayed" =>
        \A i \in PrintedLines :
            LET line == display.printed[1][i][1]
            IN  /\ line.total = ClaimedTotal(line)
                /\ line.progress_percentage = (line.learned * 100) \div line.total

(***************************************************************************)
(* Properties of teach_topic and teach_topic_with_concepts                 *)
(***************************************************************************)
TeachPcs == {"t_gen", "t_loop", "t_ask", "t_eval", "t_regen", "t_done"}

ConceptPcs == {"c_head", "c_loop", "c_ask", "c_eval", "c_regen", "c_done"}

MasteryReply ==
    [evaluation |-> [correctness |-> "correct"], feedback |-> "F", next_question |-> None]

\* C4: in teach_topic, an evaluation with correctness "correct" and no follow-up question
\* ends the session at that turn with final_assessment "mastered".
C4_MasteryEndsSession ==
    (pc \in TeachPcs /\ evaluation_data = Some(MasteryReply)) =>
        (pc = "t_done" /\ session.final_assessment = Some("mastered"))

\* no evaluation so far reported mastery (correct, and no follow-up question)
NoMasteryReported ==
    \A i \in 1..Len(calls) :
        calls[i].fn = "evaluate_answer" =>
            ~(calls[i].reply.evaluation.correctness = "correct"
              /\ ~Truthy(calls[i].reply.next_question))

EntryFields == {"turn", "question", "answer", "evaluation", "feedback"}

EmptyAnswerStep ==
    /\ (pc = "t_ask" /\ student_answer' = Some("")) =>
          /\ pc' = "t_loop" /\ turn' = turn - 1
          /\ UNCHANGED <<calls, session, data, file, current_question>>
    /\ (pc = "t_loop" /\ student_answer = Some("")) =>
          /\ pc' = "t_ask" /\ turn' = turn + 1
          /\ UNCHANGED <<calls, session, data, file, current_question>>
    /\ (pc = "c_ask" /\ student_answer' = Some("")) =>
          /\ pc' = "c_loop" /\ questions_asked' = questions_asked - 1
          /\ UNCHANGED <<calls, session, data, file, current_question>>
    /\ (pc = "c_loop" /\ student_answer = Some("")) =>
          /\ pc' = "c_ask" /\ questions_asked' = questions_asked + 1
          /\ UNCHANGED <<calls, session, data, file, current_question>>

\* C6: an empty or whitespace-only answer makes no model call, adds no transcript entry
\* and leaves the profile alone; the counter of the loop (turn, questions_asked) is taken
\* back by one, and the next step presents the same question again under the same count.
C6_EmptyAnswerDiscarded == [][EmptyAnswerStep]_vars

\* a question is presented again after an empty answer, with an earlier turn on record
C6_Witness ==
    /\ pc \in {"t_ask", "c_ask"}
    /\ student_answer = Some("")
    /\ Len(session.transcript) = 1

TranscriptShape ==
    LET tr == session.transcript
    IN  /\ \A i \in 1..Len(tr) : tr[i].turn = i
        /\ Len(tr) <= IF max_turns > 0 THEN max_turns ELSE 0
        /\ \A i \in 1..(Len(tr) - 1) : DOMAIN tr[i] = EntryFields
        /\ pc = "t_ask" => Len(tr) < max_turns
        /\ pc # "t_eval" => \A i \in 1..Len(tr) : DOMAIN tr[i] = EntryFields

TranscriptStep ==
    LET tr == session.transcript
        tr2 == session'.transcript
    IN  /\ Len(tr2) = Len(tr) + IF pc = "t_ask" /\ student_answer' # Some("") THEN 1 ELSE 0
        /\ \A i \in 1..Len(tr) :
              /\ tr2[i].turn = tr[i].turn
              /\ tr2[i].question = tr[i].question
              /\ tr2[i].answer = tr[i].answer
              /\ DOMAIN tr[i] = EntryFields =>
                    /\ DOMAIN tr2[i] = EntryFields
                    /\ tr2[i].evaluation = tr[i].evaluation
                    /\ tr2[i].feedback = tr[i].feedback

\* C7: in teach_topic the transcript's entries carry the turns 1..n in order, n <= max_turns;
\* entries are never removed or rewritten, one is added by each non-empty answer and by
\* nothing else; no question is presented once max_turns answers are evaluated; every
\* entry of a returned session has question, answer, evaluation and feedback.
C7_Transcript ==
    [](pc \in TeachPcs => TranscriptShape) /\ [][(pc \in TeachPcs) => TranscriptStep]_vars

C7_Witness ==
    /\ pc = "t_done"
    /\ max_turns = MaxTurnsBound
    /\ Len(session.transcript) = MaxTurnsBound
    /\ session.transcript[MaxTurnsBound].turn = MaxTurnsBound

C9_Returns == <>(pc \in {"t_done", "c_done"})

\* a with-concepts session returned after spending the whole budget on two concepts
C9_Witness ==
    /\ pc = "c_done"
    /\ Len(concepts) = 2
    /\ Len(session.concepts_covered) = 2
    /\ Len(session.transcript) = 2 * MaxBudget

LearnedConceptAtHead ==
    /\ pc = "c_head" /\ concept_idx <= Len(concepts)
    /\ In(CurrentConcept, LearnedOf(Data, topic))

SkippedUntouched ==
    /\ pc' = "c_head" /\ concept_idx' = concept_idx + 1
    /\ DictGet(session'.concept_results, CurrentConcept) = "already_learned"
    /\ session'.transcript = session.transcript
    /\ session'.concepts_covered = session.concepts_covered
    /\ UNCHANGED <<calls, data, file, clock, question_data, current_question,
                   student_answer, evaluation_data>>

\* C10: when the for loop of teach_topic_with_concepts reaches a concept the profile
\* lists in concepts_learned for the topic, its result becomes "already_learned" and the
\* loop moves on: no model call, no prompt, no transcript entry, no write of the profile
\* in memory or on file.
C10_SkipLearned == [][LearnedConceptAtHead => SkippedUntouched]_vars

\* a concept learned earlier in the same session was skipped
C10_Witness ==
    /\ pc = "c_head" /\ concept_idx = 3
    /\ DictGet(session.concept_results, concepts[2]) = "already_learned"
    /\ lastOp.op = "update" /\ lastOp.status = "learned"
    /\ calls # <<>>

\* the model call made by the step, when the step makes one
NewCall == calls'[Len(calls')]

Calls(fn) == Len(calls') = Len(calls) + 1 /\ NewCall.fn = fn

\* the step evaluates an answer to the question that generate_teaching_question
\* returned last
EvaluatesGenerated ==
    /\ Calls("evaluate_answer")
    /\ question_data # None
    /\ NewCall.question = question_data[1].question

\* C32: an evaluate_answer call for a question produced by generate_teaching_question
\* is given the teaching_goal and the context_used returned together with that question
C32_Step ==
    EvaluatesGenerated =>
        /\ NewCall.teaching_goal = question_data[1].teaching_goal
        /\ NewCall.context = question_data[1].context_used

C32_GoalOfCurrentQuestion == [][C32_Step]_vars

\* the parts of C32 for each loop
C32_InTeachTopic == [][(pc = "t_eval") => C32_Step]_vars

C32_InConcepts == [][(pc = "c_eval") => C32_Step]_vars

\* after the step the loop test passes, so that current_question is presented
PresentedNext ==
    \/ pc' = "t_loop" /\ TurnsRemain(turn', max_turns')
    \/ /\ pc' = "c_loop"
       /\ QuestionsRemain(questions_asked', max_questions_per_concept', concept_mastered')

\* C33: neither teaching loop makes a generate_teaching_question call whose question is
\* never presented: none after the evaluation of the final turn of teach_topic, none for
\* a concept whose budget allows no further question
C33_Step == Calls("generate_teaching_question") => PresentedNext

C33_NoWastedGeneration == [][C33_Step]_vars

\* the parts of C33: the follow-up of teach_topic, the follow-up of a concept, the first
\* question of a concept
C33_TeachFollowUp == [][(pc = "t_regen") => C33_Step]_vars

C33_ConceptFollowUp == [][(pc = "c_regen") => C33_Step]_vars

C33_ConceptFirst == [][(pc = "c_head") => C33_Step]_vars

\* C34: teach_topic returns with final_assessment None only when max_turns <= 0; for
\* max_turns >= 1 a return has final_assessment set
C34_AssessmentSet ==
    pc = "t_done" => (session.final_assessment = None <=> max_turns <= 0)

\* a return at the turn limit after every turn was evaluated
C34_Witness ==
    /\ pc = "t_done" /\ max_turns = MaxTurnsBound
    /\ Len(session.transcript) = max_turns
    /\ session.final_assessment # None
    /\ evaluation_data # None /\ ~Truthy(evaluation_data[1].next_question)

(***************************************************************************)
(* Properties of the concept loop of teach_topic_with_concepts             *)
(***************************************************************************)
\* the result recorded for a concept in a concept_results dict, "none" when absent
ResultOf(results, c) == IF HasKey(results, c) THEN DictGet(results, c) ELSE "none"

\* the step in which evaluate_answer returns "correct" or "partial"
PassingEvaluation ==
    /\ pc = "c_eval" /\ calls' # calls
    /\ evaluation_data'[1].evaluation.correctness \in {"correct", "partial"}

LearnedAtOnce ==
    /\ ResultOf(session'.concept_results, CurrentConcept) = "learned"
    /\ In(CurrentConcept, LearnedOf(data'[1], topic))
    /\ ~In(CurrentConcept, WeakOf(data'[1], topic))
    /\ file' # None /\ JsonLoad(file'[1]) = data'[1]
    /\ calls' = Append(calls, calls'[Len(calls')])
    /\ calls'[Len(calls')].fn = "evaluate_answer"
    /\ pc' = "c_head" /\ concept_idx' = concept_idx + 1

\* a question on the current concept is put or generated in this step
QuestionStep ==
    /\ pc \in ConceptPcs
    /\ \/ pc' = "c_ask" /\ pc # "c_ask"
       \/ /\ Len(calls') > Len(calls)
          /\ calls'[Len(calls')].fn = "generate_teaching_question"

\* C11: in teach_topic_with_concepts, the evaluation of a concept that yields "correct"
\* or "partial" sets the concept's result to "learned" and records it as learned in the
\* profile, in memory and on file, before any further prompt or model call; no question
\* is put or generated on a concept the profile lists as learned.
C11_Step ==
    /\ PassingEvaluation => LearnedAtOnce
    /\ QuestionStep => ~In(concepts[concept_idx'], LearnedOf(data'[1], topic))

C11_LearnedAtFirstPass == [][C11_Step]_vars

\* a concept failed its first evaluation and was learned with "partial" at its second
C11_Witness ==
    /\ pc = "c_head" /\ concept_idx = 2
    /\ Len(session.transcript) = 2
    /\ session.transcript[1].evaluation.correctness = "incorrect"
    /\ session.transcript[2].evaluation.correctness = "partial"
    /\ ResultOf(session.concept_results, concepts[1]) = "learned"
    /\ In(concepts[1], LearnedOf(Data, topic))

\* the concept becomes weak in this step, in the session results or in the profile
RecordsWeak ==
    /\ pc \in ConceptPcs
    /\ \/ /\ session'.concept_results # session.concept_results
          /\ \E c \in Concepts :
                /\ ResultOf(session'.concept_results, c) = "weak"
                /\ ResultOf(session.concept_results, c) # "weak"
       \/ /\ data' # data
          /\ \E c \in Concepts : In(c, WeakOf(data'[1], topic)) /\ lastOp'.status = "weak"

\* the last n transcript entries are evaluations of concept c, none of them passing
LastFailed(n, c) ==
    /\ Len(session.transcript) >= n
    /\ \A i \in (Len(session.transcript) - n + 1)..Len(session.transcript) :
          /\ session.transcript[i].concept = c
          /\ session.transcript[i].evaluation.correctness \notin {"correct", "partial"}

BudgetSpent ==
    /\ pc = "c_loop"
    /\ questions_asked = max_questions_per_concept
    /\ LastFailed(max_questions_per_concept, CurrentConcept)

WeakInBoth ==
    /\ ResultOf(session'.concept_results, CurrentConcept) = "weak"
    /\ In(CurrentConcept, WeakOf(data'[1], topic))
    /\ ~In(CurrentConcept, LearnedOf(data'[1], topic))
    /\ file' # None /\ JsonLoad(file'[1]) = data'[1]

\* C12: a concept is recorded "weak", in the session results and in the profile, exactly
\* when max_questions_per_concept questions on it were evaluated and none of the
\* evaluations was "correct" or "partial": never with budget left, at a quit, or after
\* a passing evaluation.
C12_Step ==
    /\ RecordsWeak => (BudgetSpent /\ WeakInBoth)
    /\ (BudgetSpent /\ pc' # pc) => WeakInBoth

C12_WeakIffBudgetSpent == [][C12_Step]_vars

\* a concept went weak after MaxBudget failed evaluations
C12_Witness ==
    /\ pc = "c_head" /\ concept_idx = 2
    /\ max_questions_per_concept = MaxBudget
    /\ Len(session.transcript) = MaxBudget
    /\ ResultOf(session.concept_results, concepts[1]) = "weak"
    /\ In(concepts[1], WeakOf(Data, topic))

\* the student answers q, quit or exit at the prompt
QuitStep ==
    /\ pc = "c_ask" /\ pc' # pc
    /\ Lower(student_answer'[1]) \in {"q", "quit", "exit"}

QuitReturns ==
    /\ pc' = "c_done"
    /\ ResultOf(session'.concept_results, CurrentConcept) = "incomplete"
    /\ calls' = calls
    /\ UNCHANGED <<data, file, clock>>
    /\ session'.transcript = session.transcript
    /\ session'.concepts_covered = session.concepts_covered
    /\ \A c \in Concepts \ {CurrentConcept} :
          ResultOf(session'.concept_results, c) = ResultOf(session.concept_results, c)

\* C13: on q, quit or exit at a prompt of teach_topic_with_concepts the function returns
\* at once: the concept in progress gets the result "incomplete", no model call follows,
\* the profile in memory and on file is left as it was, the results of the other concepts
\* are neither added nor changed, and nothing happens after the return.
C13_Step ==
    /\ QuitStep => QuitReturns
    /\ pc = "c_done" => UNCHANGED vars

EntriesFor(c) == Cardinality({i \in 1..Len(session.transcript) : session.transcript[i].concept = c})

\* the total of the transcript is within len(concepts) * max_questions_per_concept
TotalWithinBudget == Len(session.transcript) <= Len(concepts) * max_questions_per_concept

\* C30 as stated: no concept collects more than max_questions_per_concept evaluated
\* answers, and the transcript holds at most len(concepts) * max_questions_per_concept
C30_BoundedPerConcept ==
    pc \in ConceptPcs =>
        /\ \A c \in Concepts : EntriesFor(c) <= max_questions_per_concept
        /\ TotalWithinBudget

\* C30: in teach_topic_with_concepts each pass of the for loop counts at most
\* max_questions_per_concept questions, so a concept collects at most
\* max_questions_per_concept evaluated answers for each time it appears in concepts, and
\* the transcript holds at most len(concepts) * max_questions_per_concept entries
C30_BoundedPerOccurrence ==
    pc \in ConceptPcs =>
        /\ questions_asked <= max_questions_per_concept
        /\ \A c \in Concepts :
              EntriesFor(c) <= Count(c, concepts) * max_questions_per_concept
        /\ TotalWithinBudget

\* the whole budget of two concepts was spent
C30_Witness ==
    /\ pc = "c_done" /\ Len(concepts) = 2 /\ concepts[1] # concepts[2]
    /\ max_questions_per_concept = MaxBudget
    /\ \A c \in Concepts : EntriesFor(c) = MaxBudget
    /\ Len(session.transcript) = Len(concepts) * max_questions_per_concept

\* a step of a concept session keeps every learned concept of the topic learned
LearnedKept ==
    \A c \in Concepts :
        In(c, LearnedOf(Data, topic)) =>
            /\ In(c, LearnedOf(data'[1], topic))
            /\ ~In(c, WeakOf(data'[1], topic))

\* C31: during a teach_topic_with_concepts session no concept that is in the profile's
\* concepts_learned for the topic is later removed from it or moved to concepts_weak
C31_LearnedOnlyGrows == [][(pc \in ConceptPcs) => LearnedKept]_vars

\* a concept learned at its first occurrence in the list, on its second answer, was
\* skipped at its second occurrence
C31_Witness ==
    /\ pc = "c_done" /\ Len(concepts) = 2 /\ concepts[1] = concepts[2]
    /\ session.concepts_covered = <<concepts[1]>>
    /\ ResultOf(session.concept_results, concepts[1]) = "already_learned"
    /\ In(concepts[1], LearnedOf(Data, topic))
    /\ Len(session.transcript) = 2

\* the session results agree with the profile of the topic
ResultsAgree ==
    \A c \in Concepts :
        LET r == ResultOf(session.concept_results, c)
        IN  /\ r \in {"learned", "already_learned"} =>
                  In(c, LearnedOf(Data, topic)) /\ ~In(c, WeakOf(Data, topic))
            /\ r = "weak" => In(c, WeakOf(Data, topic)) /\ ~In(c, LearnedOf(Data, topic))

\* a pass of the for loop ends: the concept is appended to concepts_covered when it was
\* taught to a learned or weak result, and only then
CoveredStep ==
    LET r == ResultOf(session'.concept_results, CurrentConcept)
    IN  IF concept_idx' # concept_idx
        THEN /\ r \in {"learned", "weak", "already_learned"}
             /\ session'.concepts_covered =
                    IF r = "already_learned" THEN session.concepts_covered
                    ELSE Append(session.concepts_covered, CurrentConcept)
        ELSE session'.concepts_covered = session.concepts_covered

\* C35: at every return of teach_topic_with_concepts each concept with the session result
\* learned or already_learned is in the profile's concepts_learned, each with the result
\* weak is in concepts_weak, and concepts_covered lists the concepts taught to a learned
\* or weak result, in teaching order
C35_SessionAgreesWithProfile ==
    [](pc = "c_done" => ResultsAgree) /\ [][(pc \in ConceptPcs) => CoveredStep]_vars

\* a return after one concept was skipped as learned and the other was recorded weak
C35_Witness ==
    /\ pc = "c_done" /\ concept_idx = 3
    /\ ResultOf(session.concept_results, concepts[1]) = "already_learned"
    /\ ResultOf(session.concept_results, concepts[2]) = "weak"
    /\ session.concepts_covered = <<concepts[2]>>
    /\ ResultsAgree

(***************************************************************************)
(* Properties of VectorStore                                               *)
(***************************************************************************)
\* the lists passed to the most recent save of a name, as a load result
LastSaved(n) == <<Some(saved[n][1][1]), Some(saved[n][1][2])>>

\* C17: load(pdf_name) after save(pdf_name, chunks, embeddings) returns exactly the
\* chunks and the embeddings that were passed to save, in the same order.
C17_RoundTrip ==
    (store_call.op = "load" /\ saved[store_call.pdf_name] # None) =>
        store_call.result = LastSaved(store_call.pdf_name)

\* a save of a name that was saved before
SecondSave == pc = "store" /\ store_call'.op = "save" /\ saved[store_call'.pdf_name] # None

SaveReplaces ==
    /\ LoadFrom(Mkdir(vector_store'), store_call'.pdf_name) =
          <<Some(store_call'.chunks), Some(store_call'.embeddings)>>
    /\ \A m \in PdfNames \ {store_call'.pdf_name} :
          Mkdir(vector_store')[m] = Mkdir(vector_store)[m]

\* C18: save replaces and never merges: once save(name, A) is followed by save(name, B),
\* load(name) returns exactly the lists of B, and the files of the other names are as
\* they were before the save.
C18_SaveReplaces == [][SecondSave => SaveReplaces]_vars

\* the chunk entries of the file of a name
Entries(n) == JsonMember(Mkdir(vector_store)[n][1], "chunks")[2]

\* C19: every file of the store has the chunk ids 0..n-1 in stored order, num_chunks
\* equal to the number of chunk entries and one embedding per chunk, and load returns
\* lists of equal length, equal to the lists passed to the last save of the name.
C19_RecordShape ==
    \A n \in PdfNames :
        Mkdir(vector_store)[n] # None =>
            /\ \A i \in 1..Len(Entries(n)) : JsonMember(Entries(n)[i], "id") = JNumber(i - 1)
            /\ JsonMember(Mkdir(vector_store)[n][1], "num_chunks") = JNumber(Len(Entries(n)))
            /\ Len(LoadFrom(Mkdir(vector_store), n)[1][1]) =
                  Len(LoadFrom(Mkdir(vector_store), n)[2][1])
            /\ LoadFrom(Mkdir(vector_store), n) = LastSaved(n)

(***************************************************************************)
(* Properties of retrieve_relevant_chunks                                  *)
(***************************************************************************)
\* the call is made for a name that has no file in the store
NotIngested == pc = "r_load" /\ Mkdir(vector_store)[retrieval.pdf_name] = None

FailsNotFound ==
    /\ pc' = "r_raised"
    /\ retrieval'.raised = "ValueError"
    /\ retrieval'.results = None
    /\ calls' = calls
    /\ Mkdir(vector_store') = Mkdir(vector_store)

\* C14: retrieve_relevant_chunks for a pdf_name without a stored file raises the
\* not-found error before any embedding call; it returns no list, writes no file of
\* the store, and does nothing after the error.
C14_Step ==
    /\ (NotIngested /\ pc' # pc) => FailsNotFound
    /\ pc = "r_raised" => UNCHANGED vars

C14_NotFoundBeforeEmbedding == [][C14_Step]_vars

\* the error was raised for ch_2 while ch_1 is ingested
C14_Witness ==
    /\ pc = "r_raised" /\ retrieval.pdf_name = "ch_2"
    /\ vector_store # None /\ vector_store[1]["ch_1"] # None
    /\ calls = <<>> /\ retrieval.results = None

\* the stored chunk (counted from 1) behind the i-th result
ChunkOf(i) == retrieval.top_results[i][1] + 1

\* the similarity of stored chunk j to the query
ScoreOf(j) == cosine_similarity(retrieval.query_embedding, retrieval.embeddings[1][j])

Returned == {ChunkOf(i) : i \in 1..Len(retrieval.results[1])}

Stored == 1..Len(retrieval.chunks[1])

\* C15: with n stored chunks and top_k >= 0, retrieve_relevant_chunks returns
\* min(top_k, n) pairs (chunk_text, score) in non-increasing score order, each pair a
\* different stored chunk with its own similarity to the query, and no chunk left out
\* scores strictly higher than a returned one.
C15_TopK ==
    (pc = "r_done" /\ retrieval.top_k >= 0) =>
        LET res == retrieval.results[1]
        IN  /\ Len(res) = Min(retrieval.top_k, Len(retrieval.chunks[1]))
            /\ Len(retrieval.top_results) = Len(res)
            /\ \A i, j \in 1..Len(res) : i < j => ~Less(res[i][2], res[j][2])
            /\ \A i \in 1..Len(res) :
                  /\ ChunkOf(i) \in Stored
                  /\ res[i] = <<retrieval.chunks[1][ChunkOf(i)], ScoreOf(ChunkOf(i))>>
            /\ \A i, j \in 1..Len(res) : i # j => ChunkOf(i) # ChunkOf(j)
            /\ \A j \in Stored \ Returned :
                  \A i \in 1..Len(res) : ~Less(res[i][2], ScoreOf(j))

\* two of three chunks with three different scores were returned, the best first
C15_Witness ==
    /\ pc = "r_done" /\ retrieval.top_k = 2
    /\ Len(retrieval.chunks[1]) = 3
    /\ Len(retrieval.results[1]) = 2
    /\ Less(ScoreOf(1), ScoreOf(2)) /\ Less(ScoreOf(2), ScoreOf(3))
    /\ retrieval.results[1][1] = <<retrieval.chunks[1][3], ScoreOf(3)>>

\* C16: chunks of equal similarity are returned in ascending chunk-id order, and of the
\* chunks that tie at the top_k cut the ones with the smaller ids are returned.
C16_StableTies ==
    (pc = "r_done" /\ retrieval.top_k >= 0) =>
        /\ \A i, j \in 1..Len(retrieval.results[1]) :
              (i < j /\ retrieval.results[1][i][2] = retrieval.results[1][j][2]) =>
                  ChunkOf(i) < ChunkOf(j)
        /\ \A i \in 1..Len(retrieval.results[1]) :
              \A j \in Stored \ Returned :
                  ScoreOf(j) = retrieval.results[1][i][2] => ChunkOf(i) < j
        /\ \A i \in 1..Len(retrieval.results[1]) :
              retrieval.results[1][i][1] = retrieval.chunks[1][ChunkOf(i)]

\* three chunks of equal score and different texts, top_k = 2: the first two are
\* returned in their order and the third is cut
C16_Witness ==
    /\ pc = "r_done" /\ retrieval.top_k = 2
    /\ Len(retrieval.chunks[1]) = 3
    /\ ScoreOf(1) = ScoreOf(2) /\ ScoreOf(2) = ScoreOf(3)
    /\ retrieval.chunks[1][1] # retrieval.chunks[1][2]
    /\ retrieval.embeddings[1][1] # retrieval.embeddings[1][2]
    /\ Len(retrieval.results[1]) = 2
    /\ retrieval.results[1][1][1] = retrieval.chunks[1][1]
    /\ retrieval.results[1][2][1] = retrieval.chunks[1][2]

\* the scores of the running retrieval: of the sorted list and of the returned list
Scores ==
    {retrieval.similarities[i][2] : i \in 1..Len(retrieval.similarities)} \cup
    (IF retrieval.results = None THEN {}
     ELSE {retrieval.results[1][i][2] : i \in 1..Len(retrieval.results[1])})

Zero == <<0, 1>>

\* C27: a zero-magnitude embedding is handled by an explicit policy: cosine_similarity
\* rejects it with an error or scores it 0, and no not-a-number similarity appears in
\* the scores that retrieve_relevant_chunks sorts and returns.
C27_NoUndefinedScore ==
    /\ NaN \notin Scores
    /\ pc = "r_done" =>
          \A i \in 1..Len(retrieval.similarities) :
              NormSquared(retrieval.embeddings[1][retrieval.similarities[i][1] + 1]) = 0
                  => retrieval.similarities[i][2] = Zero

NonZero(vec) == NormSquared(vec) # 0

One == <<1, 1>>

\* C28: cosine_similarity is symmetric, lies in [-1, 1] for two non-zero vectors of equal
\* dimension, and is 1 for a non-zero vector and itself
C28_SymmetricBoundedUnit ==
    (pc = "cos_done" /\ NonZero(cosine.vec1) /\ NonZero(cosine.vec2)) =>
        LET sim == cosine.result[1]
        IN  /\ sim = cosine_similarity(cosine.vec2, cosine.vec1)
            /\ sim # NaN
            /\ ~Less(One, sim)
            /\ ~Less(Negated(One), sim) => sim = Negated(One)
            /\ cosine.vec1 = cosine.vec2 => sim = One

\* the parts of C28 taken alone
C28_Symmetric ==
    pc = "cos_done" => cosine.result[1] = cosine_similarity(cosine.vec2, cosine.vec1)

C28_AtMostOne ==
    (pc = "cos_done" /\ NonZero(cosine.vec1) /\ NonZero(cosine.vec2)) =>
        ~Less(One, cosine.result[1])

C28_SelfIsOne ==
    (pc = "cos_done" /\ NonZero(cosine.vec1) /\ cosine.vec1 = cosine.vec2) =>
        cosine.result[1] = One

(***************************************************************************)
(* Properties of the chunkers                                              *)
(***************************************************************************)
\* str begins with prefix
BeginsWith(str, prefix) ==
    Len(prefix) <= Len(str) /\ SubSeq(str, 1, Len(prefix)) = prefix

\* the units of the returned chunks: characters, or token ids in token mode
Units == IF chunking.by = "chars" THEN chunking.returned[1] ELSE chunking.chunk_tokens

\* C20: in the list a chunker returns, every chunk after the first begins with exactly
\* the trailing `overlap` units (characters, or token ids in token mode) of the chunk
\* before it, the last chunk included, whenever 0 < overlap < chunk_size.
C20_Overlap ==
    (pc = "k_done" /\ 0 < chunking.overlap /\ chunking.overlap < chunking.chunk_size) =>
        \A i \in 2..Len(Units) :
            BeginsWith(Units[i], LastUnits(Units[i - 1], chunking.overlap))

\* the last n units of str: none of them when n is 0, all of them when n > len(str)
Trailing(str, n) == SubSeq(str, Len(str) - Min(n, Len(str)) + 1, Len(str))

\* the running buffer, in characters or in token ids
Buffer == IF chunking.by = "chars" THEN chunking.current_chunk ELSE chunking.current_tokens

\* the next line in the units of the buffer
LineUnits == IF chunking.by = "chars" THEN Line ELSE Encode(Line)

\* what joins the carried units and the line: a newline in character mode
LineSeparator == IF chunking.by = "chars" THEN <<NL>> ELSE <<>>

\* the chunks closed so far, in the units of the buffer
ClosedUnits == IF chunking.by = "chars" THEN chunking.chunks ELSE chunking.chunk_tokens

\* one iteration of the loop over the lines
LineStep ==
    /\ pc = "k_line"
    /\ chunking.line_idx <= Len(chunking.lines)
    /\ chunking'.line_idx = chunking.line_idx + 1

\* the iteration closed the buffer as a chunk
Closes ==
    /\ Len(ClosedUnits') = Len(ClosedUnits) + 1
    /\ ClosedUnits'[Len(ClosedUnits')] = Buffer

C21_Step ==
    LineStep =>
        /\ Closes <=> Len(Buffer) + Len(LineUnits) >= chunking.chunk_size
        /\ ~Closes => ClosedUnits' = ClosedUnits
        /\ Closes => Buffer' = Trailing(Buffer, chunking.overlap) \o LineSeparator \o LineUnits

\* C21: the running buffer is closed as a chunk exactly when adding the next line would
\* make its size meet or exceed chunk_size, and the buffer that follows is exactly the
\* last `overlap` units of the closed buffer followed by the triggering line, for every
\* overlap in 0 .. chunk_size-1 (nothing is carried over when overlap = 0).
C21_GreedyRule == [][C21_Step]_vars

\* the first position from i on at which str holds piece whole, 0 when there is none
RECURSIVE FindAt(_, _, _)
FindAt(str, piece, i) ==
    IF i + Len(piece) - 1 > Len(str) THEN 0
    ELSE IF MatchesAt(str, piece, i) THEN i
    ELSE FindAt(str, piece, i + 1)

\* every line is held whole by some chunk, in the order of the lines, looking from
\* position i of chunk c on
RECURSIVE InOrder(_, _, _, _)
InOrder(lines, chunks, c, i) ==
    IF lines = <<>> THEN TRUE
    ELSE IF c > Len(chunks) THEN FALSE
    ELSE LET at == FindAt(chunks[c], Head(lines), i)
         IN  IF at = 0 THEN InOrder(lines, chunks, c + 1, 1)
             ELSE InOrder(Tail(lines), chunks, c, at + Len(Head(lines)))

\* the text of the running buffer
BufferText ==
    IF chunking.by = "chars" THEN chunking.current_chunk
    ELSE Decode(chunking.current_tokens)

ReturnedChunks == chunking.returned[1]

\* C22: the chunker loses no text: every non-empty input line appears whole, and in
\* input order, inside the returned chunks (a line longer than chunk_size too, unsplit
\* in one chunk), and the final non-empty buffer is emitted as the last chunk, up to
\* the white space around it, even when it is under chunk_size.
C22_NoTextLost ==
    pc = "k_done" =>
        /\ InOrder(chunking.lines, ReturnedChunks, 1, 1)
        /\ BufferText # <<>> =>
               /\ ReturnedChunks # <<>>
               /\ StripStr(ReturnedChunks[Len(ReturnedChunks)]) = StripStr(BufferText)

\* a text of two lines, one of them longer than chunk_size, has been chunked
C22_Witness ==
    /\ pc = "k_done"
    /\ Len(chunking.lines) >= 2
    /\ \E i \in 1..Len(chunking.lines) : Len(chunking.lines[i]) > chunking.chunk_size
    /\ Len(ReturnedChunks) >= 2
    /\ InOrder(chunking.lines, ReturnedChunks, 1, 1)

\* C39: no chunk returned by chunk_text_by_chars or chunk_text_by_tokens is empty, for
\* every input text and every chunk_size >= 1, a text whose first line is already as
\* long as chunk_size or longer included.
C39_NoEmptyChunk ==
    (pc = "k_done" /\ chunking.chunk_size >= 1) =>
        \A i \in 1..Len(ReturnedChunks) : ReturnedChunks[i] # <<>>

\* the text has no line with anything but white space in it, and the call has ended
EndedWithoutLines == pc \in {"k_done", "k_raised"} /\ chunking.lines = <<>>

\* C40: for a text with no non-empty line (empty, or white space only) both chunkers
\* return normally, and the list they return is empty: no error is raised and no empty
\* chunk is returned.
C40_NoLinesNoChunks ==
    EndedWithoutLines =>
        /\ pc = "k_done"
        /\ chunking.raised = ""
        /\ ReturnedChunks = <<>>

(***************************************************************************)
(* Properties of answer_query                                              *)
(***************************************************************************)
\* the texts of the k best chunks of the ranking, in rank order
BestTexts(k) == ChunksText(Results(retrieval.chunks[1], Prefix(retrieval.similarities, k)))

\* the context block inside the user message
ContextBlock(messages) ==
    SubSeq(messages[2].content, 2, Len(messages[2].content) - 2)

\* C23: answer_query(query, pdf_name, top_k) builds its grounding context from the
\* min(top_k, n) highest-ranked chunks for the caller's top_k, joined in rank order with
\* the separator, for every top_k the caller passes.
C23_ContextOfTopK ==
    (answering.running /\ answering.messages # None /\ answering.top_k >= 0) =>
        /\ Len(answering.context_chunks[1]) =
              Min(answering.top_k, Len(retrieval.chunks[1]))
        /\ ContextBlock(answering.messages[1]) =
              Join(BestTexts(answering.top_k), Separator)

\* answer_query runs for a document that has no file in the store
AnswerNotIngested ==
    answering.running /\ Mkdir(vector_store)[answering.pdf_name] = None

C24_Step ==
    AnswerNotIngested =>
        /\ calls' = calls
        /\ answering'.answer = None
        /\ pc' # "a_done"
        /\ pc' = "a_raised" => answering'.raised = "ValueError"
        /\ Mkdir(vector_store') = Mkdir(vector_store)
        /\ file' = file /\ data' = data
        /\ pc = "a_raised" => UNCHANGED vars

\* C24: if retrieval fails inside answer_query because the document was never
\* ingested, the not-found error reaches the caller unchanged, no completion-model call
\* is made, no answer is returned, and the files of the vector store and the student
\* profile are unchanged.
C24_NotFoundPropagates ==
    /\ [][C24_Step]_vars
    /\ []((AnswerNotIngested /\ pc = "r_raised") => ENABLED AnswerPropagate)

\* answer_query failed for ch_2 while ch_1 is ingested
C24_Witness ==
    /\ pc = "a_raised"
    /\ answering.pdf_name = "ch_2"
    /\ answering.raised = "ValueError"
    /\ answering.answer = None
    /\ calls = <<>>
    /\ vector_store # None /\ vector_store[1]["ch_1"] # None

(***************************************************************************)
(* Properties of ask.py and teach.py                                       *)
(***************************************************************************)
\* the program was ended by the not-found error of the retriever
CrashedOnNotFound == pc = "cli_crashed" /\ cli.exception = "ValueError"

\* the QA loop reports the error of answer_query and prompts for the next question
AskReportsError ==
    (pc = "a_raised" /\ cli.program = "ask" /\ pc' # pc) =>
        /\ pc' = "ask_prompt"
        /\ cli'.exit = None /\ cli'.exception = ""
        /\ Len(cli'.output) > Len(cli.output)

\* C25: ask.py and teach.py do not crash when retrieval fails for lack of ingested
\* data: the error is reported to the user and the interactive loop stays alive (the
\* QA loop prompts for the next question); the exception does not end the program.
C25_NoCrashWithoutData == [][AskReportsError]_vars /\ [](~CrashedOnNotFound)

(***************************************************************************)
(* Properties of concurrent StudentProfile writers                         *)
(***************************************************************************)
\* the status of the last update of (t, c) among the calls, "none" when there is none
RECURSIVE LatestOf(_, _, _)
LatestOf(updates, t, c) ==
    IF updates = <<>> THEN "none"
    ELSE LET u == updates[Len(updates)]
         IN  IF u[1] = t /\ u[2] = c THEN u[3]
             ELSE LatestOf(SubSeq(updates, 1, Len(updates) - 1), t, c)

OnDisk == JsonLoad(file[1])

\* p is the only process that has started
Alone(p) == \A q \in Procs \ {p} : writers.procs[q].pc = "new"

\* the update calls of p that the file does not show
LostUpdates(p) ==
    {i \in 1..Len(writers.procs[p].updates) :
        LET u == writers.procs[p].updates[i]
        IN  StatusIn(OnDisk, u[1], u[2]) # LatestOf(writers.procs[p].updates, u[1], u[2])}

\* C26: profile writes are last-writer-wins: every save writes the whole in-memory
\* state of the writer, so the file is always the state of the process that wrote
\* last; and a process that runs alone never loses an update.
C26_LastWriterWins ==
    /\ writers.last # "" => file = SaveAs(writers.procs[writers.last].data[1])
    /\ \A p \in Procs :
          (Alone(p) /\ writers.procs[p].pc = "ready") => LostUpdates(p) = {}

\* both processes loaded the same file and have made one update call that returned,
\* and the file shows only the update of the last writer: the update of the other is lost
C26_Witness ==
    /\ \A p \in Procs : writers.procs[p].pc = "ready" /\ Len(writers.procs[p].updates) = 1
    /\ \A p \in Procs : writers.procs[p].exists
    /\ writers.last = "p2"
    /\ LostUpdates("p1") = {1}
    /\ LostUpdates("p2") = {}

====
